---- MODULE Spec2Model ----
(***************************************************************************)
(* A model of alex/components/slu/dailrclassifier.py: the class            *)
(* DAILogRegClassifier (feature registry, DAI catalogue, trainer,          *)
(* threshold calibrator, decoder and model store).                         *)
(*                                                                         *)
(* Numbers.  Coefficients, intercepts and feature values are integers.    *)
(* A probability that a classifier predicts is written in hundredths (an   *)
(* integer 0..ProbScale); a threshold is written in half hundredths        *)
(* (thr2 = 2 * ProbScale * threshold), so that the midpoint of two         *)
(* predicted probabilities is an integer.  Merged probabilities are exact  *)
(* rationals <<n, d>> (d > 0).  Floating point rounding is not modelled.   *)
(***************************************************************************)
EXTENDS Integers, Sequences, FiniteSets, TLC

\* ---------------------------------------------------------------- bounds
\* Longest list of (probability, label) pairs handed to _calibrate_prior.
MaxCalib == 3

\* ------------------------------------------------------------ rationals
Rat(n, d) == <<n, d>>
RatLess(a, b) == a[1] * b[2] < b[1] * a[2]
RatEq(a, b) == a[1] * b[2] = b[1] * a[2]
RatAdd(a, b) == <<a[1] * b[2] + b[1] * a[2], a[2] * b[2]>>
RatSub(a, b) == <<a[1] * b[2] - b[1] * a[2], a[2] * b[2]>>
RatMul(a, b) == <<a[1] * b[1], a[2] * b[2]>>
\* a / b for b > 0
RatDiv(a, b) == <<a[1] * b[2], a[2] * b[1]>>
RatZero == <<0, 1>>
RatOne == <<1, 1>>

\* ------------------------------------------------------------------ DAIs
NONE == "None"
\* A DialogueActItem: act type, slot name, value, and the original values
\* the object remembers.  Python compares DAIs by (dat, name, value).
DialogueActItem(dat, name, value, orig) ==
    [dat |-> dat, name |-> name, value |-> value, orig_values |-> orig]

\* Optional values: None is <<>>, a value v that is set is <<v>>.
None == <<>>
Some(v) == <<v>>
IsNone(x) == x = <<>>
Val(x) == x[1]

VARIABLES
    \* ---- the classifier object (fields of DAILogRegClassifier)
    preprocessing,      \* TRUE iff a preprocessing object was given
    clser_type,         \* "logistic" or "tree"
    features_type,      \* the set of feature-type keywords it contains
    abstractions,       \* subset of {"concrete", "partial", "abstract"}
    _do_abstract_values,\* set of BOOLEAN
    n_feat_sets,
    utterances,         \* None or Some({ utt_id: utterance })
    abutterances,       \* None or Some({ utt_id: abstracted utterance })
    das,                \* None or Some({ utt_id: DA })
    utt_ids,            \* set of utterance IDs
    utterance_features, \* None or Some({ utt_id: Features })
    feat_counts,        \* { feature: count }
    feature_idxs,       \* { feature: index }
    idx2feature,        \* list of features (1-based here: the code's i is i + 1)
    _dai_counts,        \* None or Some({ DAI: count })
    trained_classifiers,\* { DAI: None } (logistic): the set of its keys
    intercepts,         \* { DAI: intercept }
    coefs,              \* { DAI: coefficient vector } (1-based here)
    cls_thresholds,     \* { DAI: thr2 } (a defaultdict: absent keys read 0.5)
    _default_min_feat_count,
    _default_min_conc_feat_count,
    _default_min_correct_dai_count,
    _default_min_incorrect_dai_count,
    \* ---- the model file: None, or Some(<<version, data>>)
    file,
    \* ---- the object that wrote the file, as it was when it returned
    saver,
    \* ---- the value the last call returned
    result,
    \* ---- the call in progress / last call
    last_op,            \* name of the last operation that ran
    raised,             \* "none", or the exception the last operation raised
    call_args,          \* the arguments of the last call (a record)
    calib_data          \* the calib_data argument of _calibrate_prior

cfgVars == <<preprocessing, clser_type, features_type, abstractions,
             _do_abstract_values>>
dataVars == <<n_feat_sets, utterances, abutterances, das, utt_ids,
              utterance_features>>
registryVars == <<feat_counts, feature_idxs, idx2feature>>
defaultVars == <<_default_min_feat_count, _default_min_conc_feat_count,
                 _default_min_correct_dai_count, _default_min_incorrect_dai_count>>
modelVars == <<trained_classifiers, intercepts, coefs, cls_thresholds>>
objVars == <<cfgVars, dataVars, registryVars, defaultVars, _dai_counts, modelVars>>
callVars == <<last_op, raised, call_args, calib_data, result>>
fileVars == <<file, saver>>
vars == <<objVars, callVars, fileVars>>

\* =========================================================== constructor
\* DAILogRegClassifier.__init__(preprocessing, clser_type, features_type,
\* features_size, abstractions).  Fields that __init__ does not assign
\* (utterances, das, utt_ids, feat_counts, feature_idxs, ...) do not exist
\* yet; they are given empty values here and no operation reads them
\* before the operation that assigns them has run.
__init__(prep, ctype, ftype, abstr) ==
    /\ preprocessing = prep
    /\ clser_type = ctype
    /\ intercepts = <<>>
    /\ coefs = <<>>
    /\ features_type = ftype
    /\ abstractions = abstr
    /\ cls_thresholds = <<>>
    /\ abutterances = None
    /\ n_feat_sets = 0
    /\ _do_abstract_values =
         (IF "partial" \in abstr THEN {FALSE} ELSE {}) \cup
         (IF "abstract" \in abstr THEN {TRUE} ELSE {})
    /\ _dai_counts = None
    /\ _default_min_feat_count = 1
    /\ _default_min_conc_feat_count = 1
    /\ _default_min_correct_dai_count = 1
    /\ _default_min_incorrect_dai_count = 1
    /\ trained_classifiers = {}
    /\ utterances = None
    /\ das = None
    /\ utt_ids = {}
    /\ utterance_features = None
    /\ feat_counts = <<>>
    /\ feature_idxs = <<>>
    /\ idx2feature = <<>>

\* The constructor, run for a new object that takes the place of the old.
construct(prep, ctype, ftype, abstr) ==
    /\ preprocessing' = prep
    /\ clser_type' = ctype
    /\ intercepts' = <<>>
    /\ coefs' = <<>>
    /\ features_type' = ftype
    /\ abstractions' = abstr
    /\ cls_thresholds' = <<>>
    /\ abutterances' = None
    /\ n_feat_sets' = 0
    /\ _do_abstract_values' =
         (IF "partial" \in abstr THEN {FALSE} ELSE {}) \cup
         (IF "abstract" \in abstr THEN {TRUE} ELSE {})
    /\ _dai_counts' = None
    /\ _default_min_feat_count' = 1
    /\ _default_min_conc_feat_count' = 1
    /\ _default_min_correct_dai_count' = 1
    /\ _default_min_incorrect_dai_count' = 1
    /\ trained_classifiers' = {}
    /\ utterances' = None
    /\ das' = None
    /\ utt_ids' = {}
    /\ utterance_features' = None
    /\ feat_counts' = <<>>
    /\ feature_idxs' = <<>>
    /\ idx2feature' = <<>>

\* ========================================================== predict_prob
\* Probabilities are written in hundredths.
ProbScale == 100

\* 1 / (1 + exp(-z)) in hundredths, for an integer z (exact to two
\* decimals for |z| <= 3, which covers the scores the model reaches).
Sigma(z) ==
    CASE z <= -3 -> 5
      [] z = -2 -> 12
      [] z = -1 -> 27
      [] z = 0 -> 50
      [] z = 1 -> 73
      [] z = 2 -> 88
      [] z >= 3 -> 95

RECURSIVE SumOver(_, _)
\* The sum of vec[i] over the indices i in idxs.
SumOver(vec, idxs) ==
    IF idxs = {} THEN 0
    ELSE LET i == CHOOSE j \in idxs : TRUE
         IN  vec[i] + SumOver(vec, idxs \ {i})

\* Features.get_feature_vector(feature_idxs): the features of `feats' that
\* have an index, as the set of their (1-based) indices; all values are 1.
get_feature_vector(feats, fidxs) ==
    {fidxs[f] + 1 : f \in feats \cap DOMAIN fidxs}

\* intercept + np.dot(coefs, feat_vec)
Score(intercept, coef_vec, feat_vec) == intercept + SumOver(coef_vec, feat_vec)

\* ================================================================= world
\* The collaborators of the classifier (utterances, the preprocessor, the
\* feature tokenisers, DAs) as far as the classifier sees them.
hello == DialogueActItem("hello", NONE, NONE, {})
bye == DialogueActItem("bye", NONE, NONE, {})

\* Words that the preprocessor replaces by a category label.
CatLabOf == [w \in {"chinese", "indian"} |-> "CL_FOOD"]
CatLabs == {CatLabOf[w] : w \in DOMAIN CatLabOf}

inform_food == DialogueActItem("inform", "food", "CL_FOOD", {})
inform_chinese == DialogueActItem("inform", "food", "chinese", {"chinese"})
inform_indian == DialogueActItem("inform", "food", "indian", {"Indian"})

\* inform_indian after category_label2value(); the DAI of "__other__"
inform_Indian == DialogueActItem("inform", "food", "Indian", {"Indian"})
other == DialogueActItem("other", NONE, NONE, {})

\* DAIs that the default _accept_dai of prune_classifiers tells apart: the
\* other-value and the dontcare of a slot, a dontcare with the slot name ''
\* (a name that is not None, yet empty), a slot without a value, null().
inform_other == DialogueActItem("inform", "food", "[OTHER]", {})
inform_dontcare == DialogueActItem("inform", "food", "dontcare", {})
inform_noname_dontcare == DialogueActItem("inform", "", "dontcare", {})
request_food == DialogueActItem("request", "food", NONE, {})
null_dai == DialogueActItem("null", NONE, NONE, {})

\* The order of DAIs (sorted() on DialogueActItem objects).
AllDAIs == <<bye, hello, inform_food, inform_Indian, inform_chinese,
             inform_indian, other, inform_other, inform_dontcare,
             inform_noname_dontcare, request_food, null_dai>>
SortDAIs(S) == SelectSeq(AllDAIs, LAMBDA d : d \in S)

\* DialogueActItem equality, `dai in da', is_generic, get_generic(),
\* is_null(), other_val
DAIEq(a, b) == a.dat = b.dat /\ a.name = b.name /\ a.value = b.value
InDA(dai, da) == \E d \in da : DAIEq(d, dai)
is_generic(dai) == dai.value \in CatLabs
get_generic(dai) ==
    IF dai.value \in DOMAIN CatLabOf
    THEN DialogueActItem(dai.dat, dai.name, CatLabOf[dai.value], {})
    ELSE dai
is_null(dai) == dai.dat = "null"
other_val == "[OTHER]"
\* DialogueActItem.category_label2value(): the DAI takes back the original
\* value it remembers.
category_label2value(dai) ==
    IF dai.orig_values # {}
    THEN [dai EXCEPT !.value = CHOOSE v \in dai.orig_values : TRUE]
    ELSE dai
\* The category label of the DAI's value (the value itself if it has none).
category_label(dai) ==
    IF dai.value \in DOMAIN CatLabOf THEN CatLabOf[dai.value] ELSE dai.value

\* An utterance is the set of its words (its n-grams, as the tokeniser
\* UtteranceFeatures('ngram', ...) yields them).  An abstracted utterance
\* has the words with category labels substituted, and the instantiations
\* (type, value) of its category labels.
Abstract(utt) ==
    [words |-> {IF w \in DOMAIN CatLabOf THEN CatLabOf[w] ELSE w : w \in utt},
     insts |-> {<<CatLabOf[w], w>> : w \in utt \cap DOMAIN CatLabOf}]

\* Abstracted.instantiate(type_, value, do_abstract)
instantiate(abutt, type_, value, do_abstract) ==
    IF do_abstract THEN abutt.words
    ELSE (abutt.words \ {type_}) \cup {value}

\* Abstracted.all_instantiations(do_abstract)
all_instantiations(abutt, do_abstract) ==
    IF abutt.insts = {} THEN {abutt.words}
    ELSE {instantiate(abutt, i[1], i[2], do_abstract) : i \in abutt.insts}

\* A feature payload: the source tokeniser's tag.
Payloads(src, S) == {<<src, x>> : x \in S}

\* The training data of scenario S1 (spec 8), with the optional inputs.
S1_utterances == <<{"hello"}, {"hello"}, {"goodbye"}>>
S1_das == <<{hello}, {hello}, {bye}>>
S1_prev_das == <<{bye}, {bye}, {hello}>>
S1_utt_nblists == <<{"hello"}, {"hello", "goodbye"}, {"goodbye"}>>
S1_da_nblists == <<<< <<1, {hello}>> >>, << <<1, {hello}>> >>, << <<1, {bye}>> >> >>

\* DialogueActFeatures(da), DialogueActNBListFeatures(da_nblist),
\* UtteranceNBListFeatures(utt_nblist)
DialogueActFeatures(da) == Payloads("da", {dai.dat : dai \in da})
DialogueActNBListFeatures(da_nblist) ==
    Payloads("da_nbl",
             UNION {{dai.dat : dai \in da_nblist[i][2]} : i \in DOMAIN da_nblist})
UtteranceNBListFeatures(utt_nblist) == Payloads("utt_nbl", utt_nblist)

\* ====================================================== feature assembler
\* `kw in self.features_type'
HasFT(ft, kw) == kw \in ft

\* Iteration over the set self._do_abstract_values: False before True.
DoAbstractSeq(dav) ==
    (IF FALSE \in dav THEN <<FALSE>> ELSE <<>>) \o
    (IF TRUE \in dav THEN <<TRUE>> ELSE <<>>)

\* Features.join(feat_sets): the feature (set_index, sub_feature).  A
\* feature of a single, unjoined feature-set has no set index (-1 here).
JoinFeatures(feat_sets) ==
    IF Len(feat_sets) > 1
    THEN UNION {{[set |-> i - 1, payload |-> x] : x \in feat_sets[i]} :
                i \in DOMAIN feat_sets}
    ELSE {[set |-> -1, payload |-> x] : x \in feat_sets[1]}

\* The n-gram feature-sets of _extract_feats_from_one, or the exception.
\* inst: <<"all">>, None, or <<type, value>>.
NgramFeatSets(abstr, dav, utt_hyp, abutt_hyp, inst) ==
    LET das_ == DoAbstractSeq(dav)
        conc == IF IsNone(utt_hyp) THEN {} ELSE Payloads("ngram", Val(utt_hyp))
    IN  IF inst = None
        THEN [raised |-> "none",
              sets |-> [i \in 1..Len(das_) |-> {}] \o <<conc>>]
        ELSE IF Len(das_) > 0 /\ IsNone(abutt_hyp)
        THEN [raised |-> "AttributeError", sets |-> <<>>]
        ELSE [raised |-> "none",
              sets |->
                [i \in 1..Len(das_) |->
                   IF inst = <<"all">>
                   THEN Payloads("ngram",
                          UNION all_instantiations(Val(abutt_hyp), das_[i]))
                   ELSE Payloads("ngram",
                          instantiate(Val(abutt_hyp), inst[1], inst[2], das_[i]))]
                \o (IF "concrete" \in abstr THEN <<conc>> ELSE <<>>)]

\* DAILogRegClassifier._extract_feats_from_one: [raised, feats, n_sets].
\* prev_da, utt_nblist, da_nblist, da_nblist_orig are None or Some(x).
_extract_feats_from_one(ft, abstr, dav, utt_hyp, abutt_hyp, prev_da, utt_nblist, da_nblist, da_nblist_orig, inst) ==
    LET ngram == IF HasFT(ft, "ngram")
                 THEN NgramFeatSets(abstr, dav, utt_hyp, abutt_hyp, inst)
                 ELSE [raised |-> "none", sets |-> <<>>]
        opt(kw, arg, feats) ==
            IF HasFT(ft, kw)
            THEN <<IF IsNone(arg) THEN {} ELSE feats>>
            ELSE <<>>
        feat_sets ==
            ngram.sets
            \o opt("prev_da", prev_da,
                   IF IsNone(prev_da) THEN {} ELSE DialogueActFeatures(Val(prev_da)))
            \o opt("utt_nbl", utt_nblist,
                   IF IsNone(utt_nblist) THEN {}
                   ELSE UtteranceNBListFeatures(Val(utt_nblist)))
            \o opt("da_nbl", da_nblist,
                   IF IsNone(da_nblist) THEN {}
                   ELSE DialogueActNBListFeatures(Val(da_nblist)))
            \o opt("da_nbl_orig", da_nblist_orig,
                   IF IsNone(da_nblist_orig) THEN {}
                   ELSE DialogueActNBListFeatures(Val(da_nblist_orig)))
    IN  IF ngram.raised # "none"
        THEN [raised |-> ngram.raised, feats |-> {}, n_sets |-> 0]
        ELSE IF Len(feat_sets) = 0
        THEN [raised |-> "DAILRException", feats |-> {}, n_sets |-> 0]
        ELSE [raised |-> "none", feats |-> JoinFeatures(feat_sets),
              n_sets |-> Len(feat_sets)]

\* The value n_feat_sets that _extract_feats_from_many records.
NFeatSets(ft, abstr, da_nblists, da_nblists_orig) ==
    (IF HasFT(ft, "ngram") THEN Cardinality(abstr) ELSE 0)
    + (IF HasFT(ft, "utt_nbl") THEN Cardinality(abstr) ELSE 0)
    + (IF HasFT(ft, "da_nbl") /\ ~IsNone(da_nblists) THEN 1 ELSE 0)
    + (IF HasFT(ft, "da_nbl_orig") /\ ~IsNone(da_nblists_orig) THEN 1 ELSE 0)

\* Optional per-utterance argument: arg[utt_id] if arg is not None.
At(arg, utt_id) == IF IsNone(arg) THEN None ELSE Some(Val(arg)[utt_id])

\* DAILogRegClassifier._extract_feats_from_many with inst='all', on the
\* fields as extract_features has just set them: { utt_id: result }.
_extract_feats_from_many(ids, utts, abutts, prev_das, utt_nblists, da_nblists, da_nblists_orig) ==
    [utt_id \in ids |->
        _extract_feats_from_one(features_type, abstractions, _do_abstract_values,
            At(utts, utt_id), At(abutts, utt_id), At(prev_das, utt_id),
            At(utt_nblists, utt_id), At(da_nblists, utt_id),
            At(da_nblists_orig, utt_id), <<"all">>)]

\* ====================================================== extract_features
\* The fields extract_features leaves behind and the exception it raises,
\* for the arguments a (each None or Some(mapping)).
ExtractOutcome(a) ==
    LET ids == IF ~IsNone(a.utterances) THEN DOMAIN Val(a.utterances)
               ELSE IF ~IsNone(a.utt_nblists) THEN DOMAIN Val(a.utt_nblists)
               ELSE IF ~IsNone(a.da_nblists) THEN DOMAIN Val(a.da_nblists)
               ELSE IF ~IsNone(a.da_nblists_orig) THEN DOMAIN Val(a.da_nblists_orig)
               ELSE {}
        no_input == /\ IsNone(a.utterances) /\ IsNone(a.utt_nblists)
                    /\ IsNone(a.da_nblists) /\ IsNone(a.da_nblists_orig)
        no_prep_input == preprocessing /\ IsNone(a.utterances) /\ IsNone(a.utt_nblists)
        \* values2category_labels_in_da needs self.das[utt_id]
        das_missing == preprocessing /\ ~no_prep_input /\ IsNone(a.das)
        abutts == IF preprocessing /\ ~IsNone(a.utterances)
                  THEN Some([u \in ids |-> Abstract(Val(a.utterances)[u])])
                  ELSE None
        nfs == NFeatSets(features_type, abstractions, a.da_nblists, a.da_nblists_orig)
        feats == _extract_feats_from_many(ids, a.utterances, abutts, a.prev_das,
                     a.utt_nblists, a.da_nblists, a.da_nblists_orig)
        failed == {u \in ids : feats[u].raised # "none"}
        base == [raised |-> "none", utterances |-> a.utterances, das |-> a.das,
                 utt_ids |-> utt_ids, abutterances |-> abutterances,
                 n_feat_sets |-> n_feat_sets,
                 utterance_features |-> utterance_features]
    IN  IF no_input THEN [base EXCEPT !.raised = "DAILRException"]
        ELSE IF no_prep_input
        THEN [base EXCEPT !.raised = "DAILRException", !.utt_ids = ids,
                          !.abutterances = None]
        ELSE IF das_missing
        THEN [base EXCEPT !.raised = "TypeError", !.utt_ids = ids,
                          !.abutterances = IF IsNone(a.utterances) THEN None
                                           ELSE Some(<<>>)]
        ELSE IF failed # {}
        THEN [base EXCEPT !.raised = feats[CHOOSE u \in failed : TRUE].raised,
                          !.utt_ids = ids, !.abutterances = abutts,
                          !.n_feat_sets = nfs]
        ELSE [base EXCEPT !.utt_ids = ids, !.abutterances = abutts,
                          !.n_feat_sets = nfs,
                          !.utterance_features = Some([u \in ids |-> feats[u].feats])]

\* DAILogRegClassifier.extract_features(utterances, das, prev_das,
\*     utt_nblists, da_nblists, da_nblists_orig)
extract_features(a) ==
    LET o == ExtractOutcome(a)
    IN  /\ utterances' = o.utterances
        /\ das' = o.das
        /\ utt_ids' = o.utt_ids
        /\ abutterances' = o.abutterances
        /\ n_feat_sets' = o.n_feat_sets
        /\ utterance_features' = o.utterance_features
        /\ raised' = o.raised
        /\ last_op' = "extract_features"
        /\ call_args' = a

\* ======================================================== prune_features
\* DAILogRegClassifier._get_conc_feats_idxs
_get_conc_feats_idxs ==
    LET cur_idx == IF HasFT(features_type, "ngram")
                   THEN Cardinality(_do_abstract_values) ELSE 0
    IN  IF HasFT(features_type, "ngram") /\ "concrete" \in abstractions
        THEN {cur_idx} ELSE {}

\* Number of training utterances whose features include `feature'.
FeatCount(feature) ==
    Cardinality({u \in utt_ids : feature \in Val(utterance_features)[u]})

\* The threshold prune_features applies to `feature'.
PruneThreshold(feature, min_feature_count, min_conc_feature_count) ==
    IF n_feat_sets = 1
    THEN (IF _get_conc_feats_idxs # {} THEN min_conc_feature_count
          ELSE min_feature_count)
    ELSE (IF feature.set \in _get_conc_feats_idxs THEN min_conc_feature_count
          ELSE min_feature_count)

\* All orders in which a dict with the keys S may be iterated.
DictOrders(S) ==
    {q \in [1..Cardinality(S) -> S] : \A i, j \in DOMAIN q : q[i] = q[j] => i = j}

\* DAILogRegClassifier.prune_features(min_feature_count,
\*     min_conc_feature_count); each argument is None or Some(n).
prune_features(min_feature_count_arg, min_conc_feature_count_arg) ==
    LET min_feature_count == IF IsNone(min_feature_count_arg) THEN 5
                             ELSE Val(min_feature_count_arg)
        min_conc_feature_count == IF IsNone(min_conc_feature_count_arg) THEN 4
                                  ELSE Val(min_conc_feature_count_arg)
    IN  /\ _default_min_feat_count' =
             IF IsNone(min_feature_count_arg) THEN _default_min_feat_count
             ELSE min_feature_count
        /\ _default_min_conc_feat_count' =
             IF IsNone(min_conc_feature_count_arg) THEN _default_min_conc_feat_count
             ELSE min_conc_feature_count
        /\ last_op' = "prune_features"
        /\ call_args' = [min_feature_count |-> min_feature_count,
                         min_conc_feature_count |-> min_conc_feature_count]
        /\ IF IsNone(utterance_features)
           THEN \* self.utterance_features[utt_id] on None
                /\ raised' = "TypeError"
                /\ feat_counts' = <<>>
                /\ UNCHANGED <<utterance_features, feature_idxs, idx2feature>>
           ELSE LET all == UNION {Val(utterance_features)[u] : u \in utt_ids}
                    kept == {f \in all :
                               ~(FeatCount(f) < PruneThreshold(f, min_feature_count,
                                                        min_conc_feature_count))}
                IN  /\ raised' = "none"
                    /\ utterance_features' = None
                    /\ feat_counts' = [f \in kept |-> FeatCount(f)]
                    /\ \E order \in DictOrders(kept) :
                          /\ idx2feature' = order
                          /\ feature_idxs' =
                               [f \in kept |->
                                  (CHOOSE i \in DOMAIN order : order[i] = f) - 1]

\* ============================================================ calibrator
\* The harmonic mean of precision and recall, as the nested fscore().
fscore(true_pos, false_pos, false_neg) ==
    LET precision == IF true_pos + false_pos # 0
                     THEN Rat(true_pos, true_pos + false_pos) ELSE RatZero
        recall == IF true_pos + false_neg # 0
                  THEN Rat(true_pos, true_pos + false_neg) ELSE RatZero
    IN  IF RatLess(RatZero, RatAdd(precision, recall))
        THEN RatDiv(RatMul(Rat(2, 1), RatMul(precision, recall)),
                    RatAdd(precision, recall))
        ELSE RatZero

\* sorted(calib_data, key=itemgetter(0)): a stable sort on the probability.
RECURSIVE InsertByProb(_, _)
InsertByProb(s, e) ==
    IF s = <<>> THEN <<e>>
    ELSE IF Head(s)[1] <= e[1] THEN <<Head(s)>> \o InsertByProb(Tail(s), e)
    ELSE <<e>> \o s

RECURSIVE SortedByProb(_)
SortedByProb(s) ==
    IF s = <<>> THEN <<>>
    ELSE InsertByProb(SortedByProb(SubSeq(s, 1, Len(s) - 1)), s[Len(s)])

\* The inner while loop: the last index of the run of data that starts at
\* datum_idx and shares its predicted value.  Indices are 1-based here
\* (the code's index i is i + 1).
RECURSIVE GroupEnd(_, _)
GroupEnd(data, datum_idx) ==
    IF datum_idx + 1 <= Len(data) /\ data[datum_idx + 1][1] = data[datum_idx][1]
    THEN GroupEnd(data, datum_idx + 1)
    ELSE datum_idx

RECURSIVE SumLabels(_, _, _)
SumLabels(data, from, to) ==
    IF from > to THEN 0 ELSE data[from][2] + SumLabels(data, from + 1, to)

\* The outer while loop of _calibrate_prior; returns split_idx.
RECURSIVE CalibLoop(_, _, _, _, _, _, _)
CalibLoop(data, datum_idx, true_pos, false_pos, false_neg, best_error, split_idx) ==
    IF datum_idx > Len(data) THEN split_idx
    ELSE
      LET last == GroupEnd(data, datum_idx)
          point_cnt == last - datum_idx + 1
          point_cls_sum == SumLabels(data, datum_idx, last)
          tp == true_pos - point_cls_sum
          fp == false_pos - (point_cnt - point_cls_sum)
          fn == false_neg + point_cls_sum
          error == RatSub(RatOne, fscore(tp, fp, fn))
      IN  IF RatLess(error, best_error)
          THEN CalibLoop(data, last + 1, tp, fp, fn, error, last)
          ELSE CalibLoop(data, last + 1, tp, fp, fn, best_error, split_idx)

\* split_idx as _calibrate_prior finds it (1-based).
SplitIdx(data) ==
    LET true_pos == SumLabels(data, 1, Len(data))
        false_pos == Len(data) - true_pos
        error == RatSub(RatOne, fscore(true_pos, false_pos, 0))
    IN  CalibLoop(data, 1, true_pos, false_pos, 0, error, 1)

\* The threshold _calibrate_prior stores, in half hundredths.
CalibratedThreshold(data) ==
    LET split_idx == SplitIdx(data)
    IN  IF split_idx + 1 <= Len(data)
        THEN data[split_idx][1] + data[split_idx + 1][1]
        ELSE 2 * data[split_idx][1]

\* _calibrate_prior(calib_data, dai)
_calibrate_prior(data, dai) ==
    /\ cls_thresholds' =
         [d \in DOMAIN cls_thresholds \cup {dai} |->
            IF d = dai THEN CalibratedThreshold(SortedByProb(data))
            ELSE cls_thresholds[d]]

\* ============================================================= catalogue
\* dict[k] = v
Put(f, k, v) == [x \in DOMAIN f \cup {k} |-> IF x = k THEN v ELSE f[x]]

\* dict.get(k, 0)
Get(counts, k) == IF k \in DOMAIN counts THEN counts[k] ELSE 0

\* CountOne, were a concrete DAI counted in its exact bucket only.
CountOneExactOnly(counts, dai) ==
    LET gen_dai == get_generic(dai)
    IN  IF "concrete" \in abstractions /\ ~DAIEq(dai, gen_dai)
        THEN Put(counts, dai, Get(counts, dai) + 1)
        ELSE Put(counts, gen_dai, Get(counts, gen_dai) + 1)

\* One iteration of the loops of the dai_counts getter: the DAI counts for
\* its generic DAI, and for itself too if 'concrete' is among the
\* abstractions and it differs from its generic DAI.
CountOne(counts, dai) ==
    LET gen_dai == get_generic(dai)
        counted == Put(counts, gen_dai, Get(counts, gen_dai) + 1)
    IN  IF "concrete" \in abstractions /\ ~DAIEq(dai, gen_dai)
        THEN Put(counted, dai, Get(counted, dai) + 1)
        ELSE counted

RECURSIVE CountLoop(_, _)
\* `for utt_id in self.utt_ids: for dai in self.das[utt_id].dais', over
\* the occurrences <<utt_id, dai>> still to count.
CountLoop(counts, occs) ==
    IF occs = {} THEN counts
    ELSE LET o == CHOOSE x \in occs : TRUE
         IN  CountLoop(CountOne(counts, o[2]), occs \ {o})

\* The counts the dai_counts getter computes when _dai_counts is None.
CountDAIs ==
    CountLoop(<<>>, UNION {{<<u, d>> : d \in Val(das)[u]} : u \in utt_ids})

\* The getter DAILogRegClassifier.dai_counts.
dai_counts ==
    /\ last_op' = "dai_counts"
    /\ call_args' = <<>>
    /\ IF ~IsNone(_dai_counts)
       THEN /\ raised' = "none"
            /\ UNCHANGED _dai_counts
       ELSE IF utt_ids # {} /\ IsNone(das)
       THEN \* self.das[utt_id] on None, after _dai_counts = dict()
            /\ raised' = "TypeError"
            /\ _dai_counts' = Some(<<>>)
       ELSE /\ raised' = "none"
            /\ _dai_counts' = Some(CountDAIs)
    /\ result' = IF raised' = "none" THEN _dai_counts' ELSE None

\* _accept_dai, were the test of the other-value left out.
_accept_dai_keep_other(dai, counts, min_dai_count) ==
    IF is_generic(dai) THEN TRUE
    ELSE IF dai.name # NONE /\ dai.value # NONE /\ counts[dai] < min_dai_count
    THEN FALSE
    ELSE IF dai.name \notin {NONE, ""} /\ dai.value = "dontcare" THEN FALSE
    ELSE ~is_null(dai)

\* The default _accept_dai of prune_classifiers.
_accept_dai(dai, counts, min_dai_count) ==
    IF is_generic(dai) THEN TRUE
    ELSE IF dai.name # NONE /\ dai.value # NONE /\ counts[dai] < min_dai_count
    THEN FALSE
    ELSE IF dai.value = other_val THEN FALSE
    ELSE IF dai.name \notin {NONE, ""} /\ dai.value = "dontcare" THEN FALSE
    ELSE ~is_null(dai)

\* DAILogRegClassifier.prune_classifiers(min_dai_count, min_correct_count,
\*     min_incorrect_count); each argument is None or Some(n).
prune_classifiers(min_dai_count_arg, min_correct_count, min_incorrect_count) ==
    LET min_dai_count == IF IsNone(min_dai_count_arg) THEN 5
                         ELSE Val(min_dai_count_arg)
    IN  /\ _default_min_correct_dai_count' =
             IF IsNone(min_correct_count) THEN _default_min_correct_dai_count
             ELSE Val(min_correct_count)
        /\ _default_min_incorrect_dai_count' =
             IF IsNone(min_incorrect_count) THEN _default_min_incorrect_dai_count
             ELSE Val(min_incorrect_count)
        /\ last_op' = "prune_classifiers"
        /\ call_args' = [min_dai_count |-> min_dai_count]
        /\ IF ~IsNone(_dai_counts)
           THEN /\ raised' = "none"
                /\ _dai_counts' =
                     Some([d \in {k \in DOMAIN Val(_dai_counts) :
                                    _accept_dai(k, Val(_dai_counts), min_dai_count)}
                           |-> Val(_dai_counts)[d]])
           ELSE IF utt_ids # {} /\ IsNone(das)
           THEN \* self.das[utt_id] on None, after _dai_counts = dict()
                /\ raised' = "TypeError"
                /\ _dai_counts' = Some(<<>>)
           ELSE /\ raised' = "none"
                /\ _dai_counts' =
                     Some([d \in {k \in DOMAIN CountDAIs :
                                    _accept_dai(k, CountDAIs, min_dai_count)}
                           |-> CountDAIs[d]])

\* ================================================================= train
\* Abstracted.insts_for_type, Abstracted.insts_for_typeval
insts_for_type(abutt, type_) == {i \in abutt.insts : i[1] = type_}
insts_for_typeval(abutt, type_, value) ==
    {i \in abutt.insts : i[1] = type_ /\ i[2] = value}

\* compatible_insts of train, for the classifier of `dai'.
compatible_insts(dai, abutt) ==
    IF is_generic(dai) THEN insts_for_type(abutt, dai.value)
    ELSE LET dai_val_proper == IF dai.orig_values # {}
                               THEN CHOOSE v \in dai.orig_values : TRUE
                               ELSE dai.value
         IN  insts_for_typeval(abutt, category_label(dai), dai_val_proper)

\* Rows without the loop over the instantiations: one row per utterance.
TrainRowsOnePerUtterance(dai) ==
    IF IsNone(abutterances)
    THEN [raised |-> "AttributeError", rows |-> <<>>]
    ELSE
      LET abutts == Val(abutterances)
          keys == {<<u, None>> : u \in DOMAIN abutts}
          one(k) == _extract_feats_from_one(features_type, abstractions,
                        _do_abstract_values, At(utterances, k[1]),
                        Some(abutts[k[1]]), None, None, None, None, k[2])
      IN  [raised |-> "none",
           rows |-> [k \in keys |->
                       [feats |-> get_feature_vector(one(k).feats, feature_idxs),
                        label |-> IF InDA(dai, Val(das)[k[1]]) THEN 1 ELSE 0]]]

\* The rows train generates for `dai': one per utterance without a
\* compatible instantiation, else one per instantiation.  A row is keyed
\* by <<utt_id, inst>> and holds its feature vector and its label.
TrainRows(dai) ==
    IF IsNone(abutterances)
    THEN \* self.abutterances.iteritems() on None
         [raised |-> "AttributeError", rows |-> <<>>]
    ELSE
      LET abutts == Val(abutterances)
          keys == UNION {
              IF compatible_insts(dai, abutts[u]) = {} THEN {<<u, None>>}
              ELSE {<<u, i>> : i \in compatible_insts(dai, abutts[u])} :
              u \in DOMAIN abutts}
          one(k) == _extract_feats_from_one(features_type, abstractions,
                        _do_abstract_values, At(utterances, k[1]),
                        Some(abutts[k[1]]), None, None, None, None, k[2])
          inst_dai(k) == DialogueActItem(dai.dat, dai.name, k[2][2], {})
          label(k) == IF k[2] = None
                      THEN (IF InDA(dai, Val(das)[k[1]]) THEN 1 ELSE 0)
                      ELSE (IF InDA(inst_dai(k), Val(das)[k[1]]) THEN 1 ELSE 0)
          failed == {k \in keys : one(k).raised # "none"}
      IN  IF failed # {}
          THEN [raised |-> one(CHOOSE k \in failed : TRUE).raised, rows |-> <<>>]
          ELSE [raised |-> "none",
                rows |-> [k \in keys |->
                            [feats |-> get_feature_vector(one(k).feats, feature_idxs),
                             label |-> label(k)]]]

\* n_pos and n_neg of train.
NPos(rows) == Cardinality({k \in DOMAIN rows : rows[k].label = 1})
NNeg(rows) == Cardinality(DOMAIN rows) - NPos(rows)

\* The values LogisticRegression.fit may return for the intercept and for
\* the coefficient of a column that is not all zero.
InterceptVals == {-1, 0}
WeightVals == {0, 1}

\* The models fit may return for m columns, of which `used' are non-zero
\* (an all-zero column gets the coefficient 0 under the L1 penalty).
Fits(m, used) ==
    {[intercept |-> b, coefs |-> w] :
        b \in InterceptVals,
        w \in {v \in [1..m -> WeightVals] : \A i \in (1..m) \ used : v[i] = 0}}

\* What one iteration of train's loop does for `dai' with the resolved
\* arguments a: it raises, or it stores a model or none.
TrainOutcomes(dai, a) ==
    LET r == TrainRows(dai)
        rows == r.rows
        m == Cardinality(DOMAIN feature_idxs)
        none(exc) == [raised |-> exc, store |-> FALSE, intercept |-> 0,
                      coefs |-> <<>>, thr |-> None, calib |-> <<>>,
                      fit_raised |-> FALSE]
        \* clser.fit raised inside the try block: `continue'
        swallowed == [none("none") EXCEPT !.fit_raised = TRUE]
        n_occs(i) == Cardinality({k \in DOMAIN rows : i \in rows[k].feats})
        used == {i \in 1..m : ~(n_occs(i) < a.min_feature_count)}
        order == CHOOSE q \in DictOrders(DOMAIN rows) : TRUE
        calib(fit) == [j \in DOMAIN order |->
                         <<Sigma(Score(fit.intercept, fit.coefs,
                                       rows[order[j]].feats \cap used)),
                           rows[order[j]].label>>]
        model(fit) == [raised |-> "none", store |-> TRUE, fit_raised |-> FALSE,
                       intercept |-> fit.intercept, coefs |-> fit.coefs,
                       thr |-> IF a.calibrate
                               THEN Some(CalibratedThreshold(SortedByProb(calib(fit))))
                               ELSE None,
                       calib |-> IF a.calibrate THEN calib(fit) ELSE <<>>]
    IN  IF r.raised # "none" THEN {none(r.raised)}
        ELSE IF a.verbose /\ (NPos(rows) < a.min_correct_dai_count
                              \/ NNeg(rows) < a.min_incorrect_dai_count)
        THEN {none("none")}
        ELSE IF m = 0
        THEN \* the shape entry has the row index len(feature_idxs) - 1 = -1
             {none("ValueError")}
        ELSE IF used = {} THEN {none("none")}
        ELSE IF NPos(rows) = 0 \/ NNeg(rows) = 0
        THEN \* fit refuses data of a single class; the error is swallowed
             {swallowed}
        ELSE {swallowed} \cup {model(fit) : fit \in Fits(m, used)}

\* train's loop without the try block around fit: a failing fit ends it.
RECURSIVE TrainRunsFitAborts(_, _)
TrainRunsFitAborts(todo, a) ==
    IF todo = <<>> THEN {<<>>}
    ELSE UNION {
           IF o.raised # "none" \/ o.fit_raised THEN {<<o>>}
           ELSE {<<o>> \o rest : rest \in TrainRunsFitAborts(Tail(todo), a)} :
           o \in TrainOutcomes(Head(todo), a)}

\* The runs of train's loop over the DAIs `todo': the outcome of every
\* iteration, up to the first one that raises.
RECURSIVE TrainRuns(_, _)
TrainRuns(todo, a) ==
    IF todo = <<>> THEN {<<>>}
    ELSE UNION {
           IF o.raised # "none" THEN {<<o>>}
           ELSE {<<o>> \o rest : rest \in TrainRuns(Tail(todo), a)} :
           o \in TrainOutcomes(Head(todo), a)}

\* DAILogRegClassifier.train(min_feature_count, min_correct_dai_count,
\*     min_incorrect_dai_count, calibrate, verbose); the three counts are
\* None or Some(n).
train(args) ==
    LET a == [min_feature_count |->
                 IF IsNone(args.min_feature_count) THEN _default_min_feat_count
                 ELSE Val(args.min_feature_count),
              min_correct_dai_count |->
                 IF IsNone(args.min_correct_dai_count)
                 THEN _default_min_correct_dai_count
                 ELSE Val(args.min_correct_dai_count),
              min_incorrect_dai_count |->
                 IF IsNone(args.min_incorrect_dai_count)
                 THEN _default_min_incorrect_dai_count
                 ELSE Val(args.min_incorrect_dai_count),
              calibrate |-> args.calibrate,
              verbose |-> args.verbose]
        todo == SortDAIs(DOMAIN Val(_dai_counts))
    IN  \E run \in TrainRuns(todo, a) :
          LET stored == {i \in DOMAIN run : run[i].store}
              calibrated == {i \in stored : ~IsNone(run[i].thr)}
              at(S, d) == CHOOSE i \in S : todo[i] = d
          IN  /\ trained_classifiers' = {todo[i] : i \in stored}
              /\ intercepts' =
                   [d \in DOMAIN intercepts \cup {todo[i] : i \in stored} |->
                      IF \E i \in stored : todo[i] = d
                      THEN run[at(stored, d)].intercept ELSE intercepts[d]]
              /\ coefs' =
                   [d \in DOMAIN coefs \cup {todo[i] : i \in stored} |->
                      IF \E i \in stored : todo[i] = d
                      THEN run[at(stored, d)].coefs ELSE coefs[d]]
              /\ cls_thresholds' =
                   [d \in DOMAIN cls_thresholds \cup {todo[i] : i \in calibrated} |->
                      IF \E i \in calibrated : todo[i] = d
                      THEN Val(run[at(calibrated, d)].thr) ELSE cls_thresholds[d]]
              /\ raised' = IF run = <<>> THEN "none" ELSE run[Len(run)].raised
              /\ last_op' = "train"
              /\ call_args' = a

\* ================================================================= store
\* The n-th smallest element of a set of integers.
Nth(S, n) == CHOOSE x \in S : Cardinality({y \in S : y < x}) = n - 1

\* DAILogRegClassifier.forget_useless_feats: the exception it raises and
\* the feature_idxs and coefs it leaves behind.  Indices of coefficient
\* vectors are 1-based here.
ForgetOutcomes ==
    LET same == [raised |-> "none", feature_idxs |-> feature_idxs, coefs |-> coefs]
        used_fidxs == UNION {{i \in DOMAIN coefs[d] : coefs[d][i] # 0} :
                             d \in DOMAIN coefs}
        fidx2new(i) == Cardinality({j \in used_fidxs : j < i})
        kept == {f \in DOMAIN feature_idxs : feature_idxs[f] + 1 \in used_fidxs}
        new_idxs == [f \in kept |-> fidx2new(feature_idxs[f] + 1)]
        new_coefs == [d \in DOMAIN coefs |->
                        [j \in 1..Cardinality(used_fidxs) |->
                           coefs[d][Nth(used_fidxs, j)]]]
    IN  IF clser_type # "logistic" THEN {same}
        ELSE IF DOMAIN coefs = {}
        THEN \* reduce() of an empty sequence with no initial value
             {[same EXCEPT !.raised = "TypeError"]}
        ELSE IF used_fidxs = {}
        THEN \* used_fidxs_ar is an empty array of floats: indexing with it
             \* gives an empty vector or raises, depending on the numpy
             \* version; feature_idxs has been replaced by then
             {[raised |-> "none", feature_idxs |-> new_idxs, coefs |-> new_coefs],
              [raised |-> "IndexError", feature_idxs |-> new_idxs, coefs |-> coefs]}
        ELSE {[raised |-> "none", feature_idxs |-> new_idxs, coefs |-> new_coefs]}

\* The fields of the object that decoding reads.
ModelOf(prep, ctype, ftype, abstr, dav, fidxs, trained, icpts, cfs, thrs) ==
    [preprocessing |-> prep, clser_type |-> ctype, features_type |-> ftype,
     abstractions |-> abstr, do_abstract_values |-> dav, feature_idxs |-> fidxs,
     trained_classifiers |-> trained, intercepts |-> icpts, coefs |-> cfs,
     cls_thresholds |-> thrs]

Model ==
    ModelOf(preprocessing, clser_type, features_type, abstractions,
            _do_abstract_values, feature_idxs, trained_classifiers, intercepts,
            coefs, cls_thresholds)

\* DAILogRegClassifier.save_model(file_name, do_reduce)
save_model(do_reduce) ==
    \E fo \in (IF do_reduce THEN ForgetOutcomes
               ELSE {[raised |-> "none", feature_idxs |-> feature_idxs,
                      coefs |-> coefs]}) :
        /\ feature_idxs' = fo.feature_idxs
        /\ coefs' = fo.coefs
        /\ raised' = fo.raised
        /\ last_op' = "save_model"
        /\ call_args' = [do_reduce |-> do_reduce]
        /\ IF fo.raised = "none"
           THEN /\ file' = Some([version |-> "4",
                                 feature_idxs |-> fo.feature_idxs,
                                 clser_type |-> clser_type,
                                 clser_data |-> IF clser_type = "logistic"
                                                THEN <<intercepts, fo.coefs>>
                                                ELSE <<trained_classifiers>>,
                                 features_type |-> features_type,
                                 cls_thresholds |-> cls_thresholds,
                                 abstractions |-> abstractions])
                /\ saver' = Some(ModelOf(preprocessing, clser_type, features_type,
                                  abstractions, _do_abstract_values,
                                  fo.feature_idxs, trained_classifiers,
                                  intercepts, fo.coefs, cls_thresholds))
           ELSE UNCHANGED <<file, saver>>

\* version.startswith('3.') or version.startswith('DSTC13'), over the
\* version tags that the files of the model carry.
StartsWith3(version) ==
    version \in {"3.0", "3.1", "3.2", "DSTC13", "DSTC13.2", "DSTC13.9"}

\* DAILogRegClassifier.load_model(file_name), for a file that exists, on a
\* newly constructed object (self.trained_classifiers does not exist yet).
\* Files of the versions 0, 1, 2, DSTC13, DSTC13.2 and 3.0, which have
\* other layouts, are not among the files of the model.
load_model ==
    LET version == Val(file).version
        data == Val(file)
    IN  /\ last_op' = "load_model"
        /\ call_args' = <<>>
        /\ IF version = "3.1"
           THEN /\ raised' = "none"
                /\ feature_idxs' = data.feature_idxs
                /\ clser_type' = data.clser_type
                /\ features_type' = data.features_type
                /\ abstractions' = data.abstractions
                /\ cls_thresholds' = data.cls_thresholds
                /\ _do_abstract_values' = _do_abstract_values \cup
                     (IF "partial" \in data.abstractions THEN {FALSE} ELSE {}) \cup
                     (IF "abstract" \in data.abstractions THEN {TRUE} ELSE {})
                \* the classifiers are recast as intercepts and coefficients
                /\ intercepts' = IF data.clser_type = "logistic"
                                 THEN data.clser_data[1] ELSE intercepts
                /\ coefs' = IF data.clser_type = "logistic"
                            THEN data.clser_data[2] ELSE coefs
                /\ trained_classifiers' = DOMAIN data.clser_data[1]
           ELSE IF version = "4"
           THEN /\ raised' = "none"
                /\ feature_idxs' = data.feature_idxs
                /\ clser_type' = data.clser_type
                /\ intercepts' = IF data.clser_type = "logistic"
                                 THEN data.clser_data[1] ELSE intercepts
                /\ coefs' = IF data.clser_type = "logistic"
                            THEN data.clser_data[2] ELSE coefs
                /\ trained_classifiers' =
                     IF data.clser_type = "logistic" THEN DOMAIN data.clser_data[2]
                     ELSE data.clser_data[1]
                /\ features_type' = data.features_type
                /\ cls_thresholds' = data.cls_thresholds
                /\ abstractions' = data.abstractions
                /\ UNCHANGED _do_abstract_values
           ELSE IF StartsWith3(version)
           THEN \* the branch of 3.x and DSTC13 is entered, but no layout
                \* matches the version: nothing is read from the file, and
                \* the recast then reads self.trained_classifiers
                /\ _do_abstract_values' = _do_abstract_values \cup
                     (IF "partial" \in abstractions THEN {FALSE} ELSE {}) \cup
                     (IF "abstract" \in abstractions THEN {TRUE} ELSE {})
                /\ raised' = IF clser_type = "logistic" THEN "AttributeError"
                             ELSE "none"
                /\ UNCHANGED <<feature_idxs, clser_type, intercepts, coefs,
                               trained_classifiers, features_type, cls_thresholds,
                               abstractions>>
           ELSE /\ raised' = "SLUException"
                /\ UNCHANGED <<feature_idxs, clser_type, intercepts, coefs,
                               trained_classifiers, features_type, cls_thresholds,
                               abstractions, _do_abstract_values>>

\* ================================================================ decode
RECURSIVE Gcd(_, _)
Gcd(a, b) == IF b = 0 THEN a ELSE Gcd(b, a % b)
\* A non-negative rational in lowest terms.
Norm(r) == LET g == Gcd(r[1], r[2]) IN <<r[1] \div g, r[2] \div g>>

\* DAILogRegClassifier.predict_prob(dai, feat_vec) on the model mdl (the
\* logistic branch): None if it raises (no intercept or coefficients for
\* the DAI, or a feature vector of another length than the coefficients).
predict_prob(mdl, dai, feat_vec) ==
    IF \/ dai \notin DOMAIN mdl.intercepts
       \/ dai \notin DOMAIN mdl.coefs
    THEN None
    ELSE IF Len(mdl.coefs[dai]) # Cardinality(DOMAIN mdl.feature_idxs)
    THEN None
    ELSE Some(Norm(Rat(Sigma(Score(mdl.intercepts[dai], mdl.coefs[dai], feat_vec)),
                       ProbScale)))

\* ---- DialogueActConfusionNetwork: a list of <<probability, DAI>>.
CnIndex(cn, dai) == {i \in DOMAIN cn : DAIEq(cn[i][2], dai)}
InConfnet(dai, cn) == CnIndex(cn, dai) # {}
add(cn, prob, dai) == Append(cn, <<prob, dai>>)

\* The probability add_merge stores for a DAI that has the probability
\* `old' when `new' arrives.
Combine(combine, old, new) ==
    CASE combine = "new" -> new
      [] combine = "max" -> IF RatLess(old, new) THEN new ELSE old
      [] combine = "add" ->
            Norm(RatSub(RatOne, RatMul(RatSub(RatOne, old), RatSub(RatOne, new))))
      [] combine = "arit" -> Norm(RatMul(Rat(1, 2), RatAdd(old, new)))
      [] combine = "harm" ->
            IF old[1] = 0 \/ new[1] = 0 THEN RatZero
            ELSE Norm(RatDiv(RatMul(Rat(2, 1), RatMul(old, new)), RatAdd(old, new)))

add_merge(cn, prob, dai, combine) ==
    IF ~InConfnet(dai, cn) THEN add(cn, prob, dai)
    ELSE LET i == CHOOSE j \in CnIndex(cn, dai) : TRUE
         IN  [cn EXCEPT ![i] = <<Combine(combine, cn[i][1], prob), cn[i][2]>>]

\* The place of a DAI in the order of DAIs.
DAIRank(dai) == CHOOSE i \in DOMAIN AllDAIs : DAIEq(AllDAIs[i], dai)

\* Does the item x come before the item y in a sorted confnet?
\* (greater probability first; equal probabilities by the DAI)
CnBefore(x, y) ==
    \/ RatLess(y[1], x[1])
    \/ RatEq(x[1], y[1]) /\ DAIRank(x[2]) >= DAIRank(y[2])

RECURSIVE CnInsert(_, _)
CnInsert(cn, e) ==
    IF cn = <<>> THEN <<e>>
    ELSE IF CnBefore(Head(cn), e) THEN <<Head(cn)>> \o CnInsert(Tail(cn), e)
    ELSE <<e>> \o cn

RECURSIVE sort(_)
\* DialogueActConfusionNetwork.sort()
sort(cn) ==
    IF cn = <<>> THEN <<>>
    ELSE CnInsert(sort(SubSeq(cn, 1, Len(cn) - 1)), cn[Len(cn)])

\* preprocessing.category_labels2values_in_confnet(da_confnet,
\* category_labels): the instantiated DAIs already hold their values.
category_labels2values_in_confnet(da_confnet) == da_confnet

\* compatible_insts of parse_1_best and parse_confnet (a DAI that
\* remembers no original value is compatible with no instantiation).
decode_compatible_insts(dai, abutt) ==
    IF is_generic(dai) THEN insts_for_type(abutt, dai.value)
    ELSE IF dai.orig_values = {} THEN {}
    ELSE insts_for_typeval(abutt, category_label(dai),
                           CHOOSE v \in dai.orig_values : TRUE)

\* The feature vector of an utterance for one instantiation (or None).
DecodeFeatVec(mdl, utterance, abutterance, a, inst) ==
    _extract_feats_from_one(mdl.features_type, mdl.abstractions,
        mdl.do_abstract_values, Some(utterance), Some(abutterance),
        a.prev_da, a.utt_nblist, a.da_nblist, a.da_nblist_orig, inst)

RECURSIVE EvalInsts(_, _, _, _, _, _, _)
\* The loop over the instantiations of one classifier.
EvalInsts(mdl, dai, utterance, abutterance, insts, combine, da_confnet) ==
    IF insts = {} THEN da_confnet
    ELSE
      LET inst == CHOOSE i \in insts : TRUE
          no_args == [prev_da |-> None, utt_nblist |-> None,
                      da_nblist |-> None, da_nblist_orig |-> None]
          inst_feats == DecodeFeatVec(mdl, utterance, abutterance, no_args, inst)
          feat_vec == get_feature_vector(inst_feats.feats, mdl.feature_idxs)
          dai_prob == predict_prob(mdl, dai, feat_vec)
          inst_dai == DialogueActItem(dai.dat, dai.name, inst[2], {})
      IN  EvalInsts(mdl, dai, utterance, abutterance, insts \ {inst}, combine,
                    IF IsNone(dai_prob) THEN da_confnet
                    ELSE add_merge(da_confnet, Val(dai_prob), inst_dai, combine))

RECURSIVE EvalClassifiersNoGenericSkip(_, _, _, _, _, _, _)
\* The loop without the test `if dai.is_generic: continue': a generic
\* classifier without instantiations is evaluated on the concrete vector.
EvalClassifiersNoGenericSkip(mdl, order, utterance, abutterance, conc_feat_vec, combine, da_confnet) ==
    IF order = <<>> THEN da_confnet
    ELSE
      LET dai == Head(order)
          insts == IF abutterance.words # {}
                   THEN decode_compatible_insts(dai, abutterance) ELSE {}
          dai_prob == predict_prob(mdl, dai, conc_feat_vec)
          next ==
            IF insts # {}
            THEN EvalInsts(mdl, dai, utterance, abutterance, insts, combine,
                           da_confnet)
            ELSE IF IsNone(dai_prob) THEN da_confnet
            ELSE add_merge(da_confnet, Val(dai_prob), dai, combine)
      IN  EvalClassifiersNoGenericSkip(mdl, Tail(order), utterance, abutterance,
                                       conc_feat_vec, combine, next)

RECURSIVE EvalClassifiersStopOnError(_, _, _, _, _, _, _)
\* The loop without the try block around predict_prob: the first
\* classifier that raises ends the evaluation.
EvalClassifiersStopOnError(mdl, order, utterance, abutterance, conc_feat_vec, combine, da_confnet) ==
    IF order = <<>> THEN da_confnet
    ELSE IF IsNone(predict_prob(mdl, Head(order), conc_feat_vec)) THEN da_confnet
    ELSE
      LET dai == Head(order)
          insts == IF abutterance.words # {}
                   THEN decode_compatible_insts(dai, abutterance) ELSE {}
          next ==
            IF insts # {}
            THEN EvalInsts(mdl, dai, utterance, abutterance, insts, combine,
                           da_confnet)
            ELSE IF is_generic(dai) THEN da_confnet
            ELSE add_merge(da_confnet, Val(predict_prob(mdl, dai, conc_feat_vec)),
                           dai, combine)
      IN  EvalClassifiersStopOnError(mdl, Tail(order), utterance, abutterance,
                                     conc_feat_vec, combine, next)

RECURSIVE EvalClassifiers(_, _, _, _, _, _, _)
\* The loop `for dai in self.trained_classifiers' of parse_1_best, taken
\* in the order `order'.
EvalClassifiers(mdl, order, utterance, abutterance, conc_feat_vec, combine, da_confnet) ==
    IF order = <<>> THEN da_confnet
    ELSE
      LET dai == Head(order)
          insts == IF abutterance.words # {}
                   THEN decode_compatible_insts(dai, abutterance) ELSE {}
          dai_prob == predict_prob(mdl, dai, conc_feat_vec)
          next ==
            IF insts # {}
            THEN EvalInsts(mdl, dai, utterance, abutterance, insts, combine,
                           da_confnet)
            ELSE IF is_generic(dai) THEN da_confnet
            ELSE IF IsNone(dai_prob) THEN da_confnet
            ELSE add_merge(da_confnet, Val(dai_prob), dai, combine)
      IN  EvalClassifiers(mdl, Tail(order), utterance, abutterance,
                          conc_feat_vec, combine, next)

RECURSIVE AddMissingDAIsOverwrite(_, _, _)
\* The insertion without the test `dai not in confnet': the probability of
\* the hypothesis replaces the classifier's.
AddMissingDAIsOverwrite(confnet, prob, da) ==
    IF da = {} THEN confnet
    ELSE LET dai == CHOOSE d \in da : \A e \in da : DAIRank(d) <= DAIRank(e)
         IN  AddMissingDAIsOverwrite(add_merge(confnet, prob, dai, "new"),
                                     prob, da \ {dai})

RECURSIVE AddMissingDAIs(_, _, _)
\* `for dai in da: if dai not in confnet: confnet.add(prob, dai)'
AddMissingDAIs(confnet, prob, da) ==
    IF da = {} THEN confnet
    ELSE LET dai == CHOOSE d \in da : \A e \in da : DAIRank(d) <= DAIRank(e)
         IN  AddMissingDAIs(IF InConfnet(dai, confnet) THEN confnet
                            ELSE add(confnet, prob, dai),
                            prob, da \ {dai})

RECURSIVE AddMissing(_, _)
\* `for prob, da in the_nblist: ...'
AddMissing(confnet, the_nblist) ==
    IF the_nblist = <<>> THEN confnet
    ELSE AddMissing(AddMissingDAIs(confnet, Head(the_nblist)[1], Head(the_nblist)[2]),
                    Tail(the_nblist))

\* Is the optional list given and non-empty?
Truthy(x) == ~IsNone(x) /\ Val(x) # <<>>

\* DAILogRegClassifier.parse_1_best(utterance, prev_da, utt_nblist,
\*     da_nblist, da_nblist_orig, prob_combine_meth) on the model mdl, with
\* the classifiers iterated in `order': the exception and the confnet.
parse_1_best(mdl, a, order) ==
    IF ~mdl.preprocessing
    THEN \* `abutterance' is bound only in the preprocessing branch
         [raised |-> "UnboundLocalError", confnet |-> <<>>]
    ELSE
      LET utterance == a.utterance
          abutterance == Abstract(utterance)
          utt_features ==
              DecodeFeatVec(mdl, utterance, abutterance, a, None)
          conc_feat_vec ==
              get_feature_vector(utt_features.feats, mdl.feature_idxs)
          da_confnet == EvalClassifiers(mdl, order, utterance, abutterance,
                            conc_feat_vec, a.prob_combine_meth, <<>>)
          confnet == sort(category_labels2values_in_confnet(da_confnet))
          the_nblist == IF Truthy(a.da_nblist) THEN a.da_nblist
                        ELSE a.da_nblist_orig
      IN  IF utt_features.raised # "none"
          THEN [raised |-> utt_features.raised, confnet |-> <<>>]
          ELSE [raised |-> "none",
                confnet |-> IF Truthy(a.da_nblist) \/ Truthy(a.da_nblist_orig)
                            THEN AddMissing(confnet, Val(the_nblist))
                            ELSE confnet]

\* ---- parse_nblist
\* merge_slu_confnets(confnet_hyps): every item of every confnet, weighted
\* by the probability of its hypothesis, merged with 'add'.
RECURSIVE MergeItems(_, _, _)
MergeItems(merged, weight, cn) ==
    IF cn = <<>> THEN merged
    ELSE MergeItems(add_merge(merged, Norm(RatMul(weight, Head(cn)[1])),
                              Head(cn)[2], "add"),
                    weight, Tail(cn))

RECURSIVE merge_slu_confnets(_, _)
merge_slu_confnets(merged, confnet_hyps) ==
    IF confnet_hyps = <<>> THEN merged
    ELSE merge_slu_confnets(
             MergeItems(merged, Head(confnet_hyps)[1], Head(confnet_hyps)[2]),
             Tail(confnet_hyps))

\* DialogueActConfusionNetwork.prune(): items of negligible probability
\* are dropped.
PruneProb == Rat(1, 200)
prune(cn) == SelectSeq(cn, LAMBDA e : ~RatLess(e[1], PruneProb))

\* The utterance "__other__".
OtherUtt == {"__other__"}

\* parse_nblist without the test for "__other__": every hypothesis is
\* passed to parse_1_best.
parse_nblist_no_other(mdl, utterance_list, order) ==
    LET args(utt) == [utterance |-> utt, prev_da |-> None, utt_nblist |-> None,
                      da_nblist |-> None, da_nblist_orig |-> None,
                      prob_combine_meth |-> "max"]
        merge(hyps) ==
          LET failed == {i \in DOMAIN utterance_list : hyps[i].raised # "none"}
              confnet_hyps == [i \in DOMAIN utterance_list |->
                                 <<utterance_list[i][1], hyps[i].confnet>>]
          IN  IF failed # {}
              THEN [raised |-> hyps[CHOOSE i \in failed :
                                       \A j \in failed : i <= j].raised,
                    confnet |-> <<>>]
              ELSE [raised |-> "none",
                    confnet |-> sort(prune(merge_slu_confnets(<<>>, confnet_hyps)))]
    IN  IF Len(utterance_list) = 0 THEN [raised |-> "none", confnet |-> <<>>]
        ELSE merge([i \in DOMAIN utterance_list |->
                     parse_1_best(mdl, args(utterance_list[i][2]), order)])

\* DAILogRegClassifier.parse_nblist(utterance_list) on the model mdl.
parse_nblist(mdl, utterance_list, order) ==
    LET args(utt) == [utterance |-> utt, prev_da |-> None, utt_nblist |-> None,
                      da_nblist |-> None, da_nblist_orig |-> None,
                      prob_combine_meth |-> "max"]
        \* the confnet of every hypothesis, and what becomes of them
        merge(hyps) ==
          LET failed == {i \in DOMAIN utterance_list : hyps[i].raised # "none"}
              confnet_hyps == [i \in DOMAIN utterance_list |->
                                 <<utterance_list[i][1], hyps[i].confnet>>]
          IN  IF failed # {}
              THEN [raised |-> hyps[CHOOSE i \in failed :
                                       \A j \in failed : i <= j].raised,
                    confnet |-> <<>>]
              ELSE [raised |-> "none",
                    confnet |-> sort(prune(merge_slu_confnets(<<>>, confnet_hyps)))]
    IN  IF Len(utterance_list) = 0 THEN [raised |-> "none", confnet |-> <<>>]
        ELSE merge([i \in DOMAIN utterance_list |->
                     IF utterance_list[i][2] = OtherUtt
                     THEN [raised |-> "none", confnet |-> add(<<>>, RatOne, other)]
                     ELSE parse_1_best(mdl, args(utterance_list[i][2]), order)])

\* ---- parse_confnet
RECURSIVE EvalConfnetInsts(_, _, _, _, _, _)
\* The loop over the instantiations of one classifier in parse_confnet.
EvalConfnetInsts(mdl, dai, a, ab_confnet, insts, da_confnet) ==
    IF insts = {} THEN da_confnet
    ELSE
      LET inst == CHOOSE i \in insts : TRUE
          no_args == [prev_da |-> None, utt_nblist |-> None,
                      da_nblist |-> None, da_nblist_orig |-> None]
          inst_feats == DecodeFeatVec(mdl, a.confnet, ab_confnet, no_args, inst)
          feat_vec == get_feature_vector(inst_feats.feats, mdl.feature_idxs)
          dai_prob == predict_prob(mdl, dai, feat_vec)
          inst_dai == DialogueActItem(dai.dat, dai.name, inst[2], {})
      IN  EvalConfnetInsts(mdl, dai, a, ab_confnet, insts \ {inst},
              IF (~a.include_other /\ inst[2] = other_val) \/ IsNone(dai_prob)
              THEN da_confnet
              ELSE add_merge(da_confnet, Val(dai_prob), inst_dai,
                             a.prob_combine_meth))

RECURSIVE EvalConfnetClassifiers(_, _, _, _, _, _)
\* The loop `for dai in self.trained_classifiers' of parse_confnet: the
\* confnet built, and the DAIs (keys of the model) on which
\* category_label2value() was called.
EvalConfnetClassifiers(mdl, order, a, ab_confnet, conc_feat_vec, acc) ==
    IF order = <<>> THEN acc
    ELSE
      LET dai == Head(order)
          insts == decode_compatible_insts(dai, ab_confnet)
          dai_prob == predict_prob(mdl, dai, conc_feat_vec)
          next ==
            IF insts # {}
            THEN [acc EXCEPT !.da_confnet =
                     EvalConfnetInsts(mdl, dai, a, ab_confnet, insts, acc.da_confnet)]
            ELSE IF is_generic(dai)
                    \/ (~a.include_other /\ other_val \in dai.orig_values)
            THEN acc
            ELSE IF IsNone(dai_prob) THEN acc
            ELSE [da_confnet |-> add_merge(acc.da_confnet, Val(dai_prob),
                                           category_label2value(dai),
                                           a.prob_combine_meth),
                  relabelled |-> acc.relabelled \cup {dai}]
      IN  EvalConfnetClassifiers(mdl, Tail(order), a, ab_confnet, conc_feat_vec, next)

\* DAILogRegClassifier.parse_confnet(confnet, include_other,
\*     prob_combine_meth) on the model mdl: the exception, the confnet
\* returned and the keys of the model that were relabelled.
parse_confnet(mdl, a, order) ==
    IF ~mdl.preprocessing
    THEN \* `ab_confnet' is bound only in the preprocessing branch
         [raised |-> "UnboundLocalError", confnet |-> <<>>, relabelled |-> {}]
    ELSE
      LET ab_confnet == Abstract(a.confnet)
          no_args == [prev_da |-> None, utt_nblist |-> None,
                      da_nblist |-> None, da_nblist_orig |-> None]
          cn_feats == DecodeFeatVec(mdl, a.confnet, ab_confnet, no_args, None)
          conc_feat_vec == get_feature_vector(cn_feats.feats, mdl.feature_idxs)
          r == EvalConfnetClassifiers(mdl, order, a, ab_confnet, conc_feat_vec,
                   [da_confnet |-> <<>>, relabelled |-> {}])
      IN  IF cn_feats.raised # "none"
          THEN [raised |-> cn_feats.raised, confnet |-> <<>>, relabelled |-> {}]
          ELSE [raised |-> "none", confnet |-> r.da_confnet,
                relabelled |-> r.relabelled]

\* A dict whose key objects in M have had category_label2value() called.
Relabel(d, M) == IF d \in M THEN category_label2value(d) ELSE d
RekeySet(S, M) == {Relabel(d, M) : d \in S}
Rekey(f, M) ==
    [k \in RekeySet(DOMAIN f, M) |->
        f[CHOOSE d \in DOMAIN f : Relabel(d, M) = k]]

\* ----------------------------------------------- calibrator specification
CalibDAI == DialogueActItem("hello", NONE, NONE, {})

\* The probabilities predict_proba can hand to the calibrator.
CalibProbs == {Sigma(z) : z \in -2..2}

CalibInputs ==
    UNION {[1..n -> CalibProbs \X {0, 1}] : n \in 1..MaxCalib}

InitCalib ==
    /\ __init__(TRUE, "logistic", {"ngram"}, {"concrete", "abstract"})
    /\ last_op = "__init__"
    /\ raised = "none"
    /\ call_args = <<>>
    /\ file = None
    /\ saver = None
    /\ result = None
    /\ calib_data \in CalibInputs

Calibrate ==
    /\ last_op = "__init__"
    /\ _calibrate_prior(calib_data, CalibDAI)
    /\ last_op' = "_calibrate_prior"
    /\ UNCHANGED <<cfgVars, dataVars, registryVars, defaultVars, _dai_counts>>
    /\ UNCHANGED <<trained_classifiers, intercepts, coefs>>
    /\ UNCHANGED <<raised, call_args, calib_data, result, fileVars>>

NextCalib == Calibrate

SpecCalib == InitCalib /\ [][NextCalib]_vars

\* ---- C3
\* The F-score obtained on `data' when exactly the pairs whose probability
\* lies above the threshold thr2 (half hundredths) are classified positive;
\* with `incl' a pair at the threshold counts as positive too.  (The
\* comparison of a probability with cls_thresholds is made by the callers
\* of the classifier, so both readings are admitted.)
FScoreAt(data, thr2, incl) ==
    LET n == Len(data)
        pos == {i \in 1..n : \/ 2 * data[i][1] > thr2
                             \/ incl /\ 2 * data[i][1] = thr2}
        tp == Cardinality({i \in pos : data[i][2] = 1})
        fp == Cardinality(pos) - tp
        fn == Cardinality({i \in 1..n : data[i][2] = 1}) - tp
    IN  fscore(tp, fp, fn)

\* C3: the threshold stored by _calibrate_prior maximises the F-score: for
\* every non-empty list of (probability, label) pairs, classifying as
\* positive the pairs above the stored threshold gives an F-score at least
\* as high as any other threshold in [0, 1] gives (also when classifying
\* every pair positive is optimal).
C3_ThresholdMaximisesFScore ==
    last_op = "_calibrate_prior" =>
        \E incl \in BOOLEAN :
            \A t2 \in 0..(2 * ProbScale) :
                ~RatLess(FScoreAt(calib_data, cls_thresholds[CalibDAI], incl),
                         FScoreAt(calib_data, t2, incl))

\* ================================================ registry specification
\* Configurations of features_type and abstractions, and the arguments of
\* extract_features and prune_features, that the registry is checked on.
FeatureTypes ==
    {{"ngram"}, {"prev_da"}, {"utt_nbl"}, {"ngram", "prev_da"},
     {"ngram", "da_nbl"}, {"ngram", "utt_nbl"}}
AbstractionSets ==
    {{"concrete"}, {"abstract"}, {"concrete", "abstract"}}

ExtractArgs ==
    [utterances : {None, Some(S1_utterances)},
     das : {Some(S1_das)},
     prev_das : {None, Some(S1_prev_das)},
     utt_nblists : {None, Some(S1_utt_nblists)},
     da_nblists : {None, Some(S1_da_nblists)},
     da_nblists_orig : {None}]

MinCountArgs == {None, Some(1), Some(2)}

InitPrune ==
    /\ \E prep \in BOOLEAN, ft \in FeatureTypes, abstr \in AbstractionSets :
          __init__(prep, "logistic", ft, abstr)
    /\ last_op = "__init__"
    /\ raised = "none"
    /\ call_args = <<>>
    /\ file = None
    /\ saver = None
    /\ result = None
    /\ calib_data = <<>>

ExtractFeatures ==
    /\ last_op = "__init__"
    /\ \E a \in ExtractArgs : extract_features(a)
    /\ UNCHANGED <<cfgVars, registryVars, defaultVars, _dai_counts, modelVars>>
    /\ UNCHANGED <<calib_data, result, fileVars>>

PruneFeatures ==
    /\ last_op = "extract_features" /\ raised = "none"
    /\ \E mfc \in MinCountArgs, mcfc \in MinCountArgs : prune_features(mfc, mcfc)
    /\ UNCHANGED <<cfgVars, _dai_counts, modelVars, calib_data, result, fileVars>>
    /\ UNCHANGED <<n_feat_sets, utterances, abutterances, das, utt_ids>>
    /\ UNCHANGED <<_default_min_correct_dai_count, _default_min_incorrect_dai_count>>

NextPrune == ExtractFeatures \/ PruneFeatures

SpecPrune == InitPrune /\ [][NextPrune]_vars

\* ---- C6
\* The position of a feature's feature-set in the assembler's list.
SetIndex(feature) == IF feature.set = -1 THEN 0 ELSE feature.set

\* C6: after prune_features every kept feature has a training count >= its
\* applicable threshold (min_conc_feature_count when its set index is a
\* concrete set index, min_feature_count otherwise), the indices are
\* exactly 0..m-1, and idx2feature is the inverse of feature_idxs; for
\* every configuration of features_type and abstractions.
C6_PrunedRegistry ==
    (last_op = "prune_features" /\ raised = "none") =>
        LET m == Cardinality(DOMAIN feature_idxs)
        IN  /\ \A f \in DOMAIN feature_idxs :
                  feat_counts[f] >=
                     (IF SetIndex(f) \in _get_conc_feats_idxs
                      THEN call_args.min_conc_feature_count
                      ELSE call_args.min_feature_count)
            /\ {feature_idxs[f] : f \in DOMAIN feature_idxs} = 0..(m - 1)
            /\ Len(idx2feature) = m
            /\ \A f \in DOMAIN feature_idxs : idx2feature[feature_idxs[f] + 1] = f

\* ------------------------------------------------ lifecycle specification
\* One classifier object at a time: it is constructed, fed the training
\* data of scenario S1, pruned and trained, it saves its model, a new
\* object is constructed and loads the model, and objects that hold a
\* model decode utterances.  An object is trained once, and an operation that
\* raised ends the use of its object.
LifeAbstractions == {{"concrete"}, {"concrete", "abstract"}}
LifeExtractArgs ==
    [utterances |-> Some(S1_utterances), das |-> Some(S1_das), prev_das |-> None,
     utt_nblists |-> None, da_nblists |-> None, da_nblists_orig |-> None]
LifeTrainArgs ==
    [min_feature_count : {None}, min_correct_dai_count : {None, Some(2)},
     min_incorrect_dai_count : {None}, calibrate : {TRUE}, verbose : BOOLEAN]
LifeParseArgs ==
    [utterance : {{"hello"}, {"goodbye"}}, prev_da : {None}, utt_nblist : {None},
     da_nblist : {None}, da_nblist_orig : {None}, prob_combine_meth : {"max"}]

Init ==
    /\ \E prep \in BOOLEAN, abstr \in LifeAbstractions :
          __init__(prep, "logistic", {"ngram"}, abstr)
    /\ last_op = "__init__"
    /\ raised = "none"
    /\ call_args = <<>>
    /\ file = None
    /\ saver = None
    /\ result = None
    /\ calib_data = <<>>

\* Does the object hold a model (trained or loaded)?
HasModel ==
    /\ last_op \in {"train", "save_model", "load_model", "parse_1_best",
                    "parse_nblist", "parse_confnet"}
    /\ raised = "none"

DoExtractFeatures ==
    /\ last_op = "__init__" /\ file = None
    /\ extract_features(LifeExtractArgs)
    /\ UNCHANGED <<cfgVars, registryVars, defaultVars, _dai_counts, modelVars>>
    /\ result' = None
    /\ UNCHANGED <<calib_data, fileVars>>

DoPruneFeatures ==
    /\ last_op = "extract_features" /\ raised = "none"
    /\ \E mcfc \in {None, Some(1)} : prune_features(Some(1), mcfc)
    /\ result' = None
    /\ UNCHANGED <<cfgVars, _dai_counts, modelVars, calib_data, fileVars>>
    /\ UNCHANGED <<n_feat_sets, utterances, abutterances, das, utt_ids>>
    /\ UNCHANGED <<_default_min_correct_dai_count, _default_min_incorrect_dai_count>>

DoPruneClassifiers ==
    /\ last_op = "prune_features" /\ raised = "none"
    /\ prune_classifiers(Some(1), None, None)
    /\ UNCHANGED <<cfgVars, dataVars, registryVars, modelVars>>
    /\ UNCHANGED <<_default_min_feat_count, _default_min_conc_feat_count>>
    /\ result' = None
    /\ UNCHANGED <<calib_data, fileVars>>

DoTrain ==
    /\ last_op = "prune_classifiers" /\ raised = "none"
    /\ \E args \in LifeTrainArgs : train(args)
    /\ UNCHANGED <<cfgVars, dataVars, registryVars, defaultVars, _dai_counts>>
    /\ result' = None
    /\ UNCHANGED <<calib_data, fileVars>>

DoSaveModel ==
    /\ HasModel
    /\ \E do_reduce \in BOOLEAN : save_model(do_reduce)
    /\ UNCHANGED <<cfgVars, dataVars, feat_counts, idx2feature, defaultVars>>
    /\ UNCHANGED <<_dai_counts, trained_classifiers, intercepts, cls_thresholds>>
    /\ result' = None
    /\ UNCHANGED calib_data

DoConstruct ==
    /\ last_op = "save_model" /\ raised = "none"
    /\ \E prep \in BOOLEAN, abstr \in LifeAbstractions :
          construct(prep, "logistic", {"ngram"}, abstr)
    /\ last_op' = "__init__"
    /\ raised' = "none"
    /\ call_args' = <<>>
    /\ result' = None
    /\ UNCHANGED <<calib_data, fileVars>>

DoLoadModel ==
    /\ last_op = "__init__" /\ ~IsNone(file)
    /\ load_model
    /\ UNCHANGED <<preprocessing, dataVars, feat_counts, idx2feature, defaultVars>>
    /\ result' = None
    /\ UNCHANGED <<_dai_counts, calib_data, fileVars>>

DoParse1Best ==
    /\ HasModel
    /\ \E a \in LifeParseArgs, order \in DictOrders(trained_classifiers) :
          \E r \in {parse_1_best(Model, a, order)} :
              /\ result' = Some(r.confnet)
              /\ raised' = r.raised
              /\ call_args' = a
    /\ last_op' = "parse_1_best"
    /\ UNCHANGED <<objVars, calib_data, fileVars>>

Next ==
    \/ DoExtractFeatures
    \/ DoPruneFeatures
    \/ DoPruneClassifiers
    \/ DoTrain
    \/ DoSaveModel
    \/ DoConstruct
    \/ DoLoadModel
    \/ DoParse1Best

Spec == Init /\ [][Next]_vars

\* Is the object the one that was fed the training data?
IsLearner == IsNone(file) \/ ~IsNone(_dai_counts)

\* ---- C1
\* C1: on an object without a preprocessor, the sequence extract_features,
\* prune_features(min_feature_count=1), prune_classifiers(min_dai_count=1),
\* train, parse_1_best(utterance) completes without raising, and the
\* confnet that parse_1_best returns has an entry for every trained
\* non-generic DAI.
C1_NoPreprocessingCompletes ==
    (/\ ~preprocessing
     /\ IsNone(file)
     /\ last_op \in {"extract_features", "prune_features", "prune_classifiers",
                     "train", "parse_1_best"})
    => /\ raised = "none"
       /\ last_op = "parse_1_best" =>
            \A d \in trained_classifiers :
                ~is_generic(d) => InConfnet(d, Val(result))

\* ---- C2
\* C2: after train, no classifier is stored (no entry in
\* trained_classifiers, intercepts, coefs) for a DAI of the catalogue whose
\* rows have n_pos < min_correct_dai_count or n_neg <
\* min_incorrect_dai_count, whatever the other arguments (verbose) are.
C2_InsufficientDAINotStored ==
    (last_op = "train" /\ raised = "none") =>
        \A d \in DOMAIN Val(_dai_counts) :
            (\/ NPos(TrainRows(d).rows) < call_args.min_correct_dai_count
             \/ NNeg(TrainRows(d).rows) < call_args.min_incorrect_dai_count)
            => /\ d \notin trained_classifiers
               /\ d \notin DOMAIN intercepts
               /\ d \notin DOMAIN coefs

\* ---- C4
\* C4: after save_model and then load_model, on any object, the loaded
\* model has the feature_idxs, coefs, cls_thresholds and abstractions of
\* the model as it was saved, and parse_1_best on the loaded model returns
\* what it returns on the saving model, for every input (the two objects
\* being given the same preprocessor).
C4_SaveLoadRoundTrip ==
    (last_op = "load_model" /\ raised = "none") =>
        /\ feature_idxs = Val(saver).feature_idxs
        /\ coefs = Val(saver).coefs
        /\ cls_thresholds = Val(saver).cls_thresholds
        /\ abstractions = Val(saver).abstractions
        /\ preprocessing = Val(saver).preprocessing =>
             \A a \in LifeParseArgs :
                \A order \in DictOrders(trained_classifiers) :
                    parse_1_best(Model, a, order) = parse_1_best(Val(saver), a, order)

\* ---- C5
\* C5: forget_useless_feats, as save_model(do_reduce=True) runs it, works on
\* every model (also one with no trained classifier or with all-zero
\* coefficients) and preserves the score intercept + coefs . x of every
\* trained DAI on every set of input features.
C5_ReductionPreservesScores ==
    [][(last_op' = "save_model" /\ call_args'.do_reduce) =>
          /\ raised' = "none"
          /\ \A d \in DOMAIN coefs :
                \A feats \in SUBSET (DOMAIN feature_idxs) :
                    Score(intercepts[d], coefs[d],
                          get_feature_vector(feats, feature_idxs))
                    = Score(intercepts'[d], coefs'[d],
                            get_feature_vector(feats, feature_idxs'))]_vars

\* ---- C7
\* C7: in every state of the learner from prune_features on, through any
\* train, save_model and parse calls, feature_idxs and idx2feature have the
\* same size and idx2feature is the inverse of feature_idxs.
C7_RegistryInverse ==
    (/\ IsLearner
     /\ raised = "none"
     /\ last_op \in {"prune_features", "prune_classifiers", "train", "save_model",
                     "parse_1_best"})
    => /\ Cardinality(DOMAIN feature_idxs) = Len(idx2feature)
       /\ \A f \in DOMAIN feature_idxs : idx2feature[feature_idxs[f] + 1] = f

\* --------------------------------------------------- decoder specification
\* A new object loads a model file and decodes.  The files hold models over
\* the features CL_FOOD (abstract n-gram), hello and chinese (concrete
\* n-grams) with a generic classifier inform(food=CL_FOOD) and the concrete
\* classifiers inform(food=chinese) and inform(food=indian).
f_food == [set |-> 0, payload |-> <<"ngram", "CL_FOOD">>]
f_hello == [set |-> 1, payload |-> <<"ngram", "hello">>]
f_chinese == [set |-> 1, payload |-> <<"ngram", "chinese">>]
DecodeFeatureIdxs == (f_food :> 0) @@ (f_hello :> 1) @@ (f_chinese :> 2)

\* (intercept, coefficients) a file may hold for each classifier; a vector
\* of two coefficients does not fit the three features of the file.
DecodeClassifiers ==
    [inform_food : {<<0, <<1, 0, 0>> >>, <<-1, <<0, 0, 0>> >>, <<0, <<1, 0>> >>},
     inform_chinese : {<<0, <<0, 0, 1>> >>, <<-1, <<0, 1, 0>> >>},
     inform_indian : {<<-1, <<0, 0, 0>> >>, <<0, <<0, 1, 0>> >>, <<0, <<0, 1>> >>}]

DecodeFile(version, c) ==
    [version |-> version,
     feature_idxs |-> DecodeFeatureIdxs,
     clser_type |-> "logistic",
     clser_data |->
        << (inform_food :> c.inform_food[1]) @@ (inform_chinese :> c.inform_chinese[1])
              @@ (inform_indian :> c.inform_indian[1]),
           (inform_food :> c.inform_food[2]) @@ (inform_chinese :> c.inform_chinese[2])
              @@ (inform_indian :> c.inform_indian[2]) >>,
     features_type |-> {"ngram"},
     cls_thresholds |-> <<>>,
     abstractions |-> {"concrete", "abstract"}]

DecodeFiles ==
    {DecodeFile("4", c) : c \in DecodeClassifiers}
    \cup {DecodeFile(v, CHOOSE c \in DecodeClassifiers : TRUE) : v \in {"3.1", "5"}}

DecodeParseArgs ==
    [utterance : {{"hello"}, {"hello", "chinese"}},
     prev_da : {None}, utt_nblist : {None},
     da_nblist : {None, Some(<< <<Rat(9, 10), {bye}>> >>),
                  Some(<< <<Rat(7, 10), {bye, inform_chinese}>>,
                          <<Rat(3, 10), {bye, hello}>> >>)},
     da_nblist_orig : {None, Some(<< <<Rat(1, 2), {hello}>> >>)},
     prob_combine_meth : {"new", "max", "add", "arit", "harm"}]
DecodeNBLists ==
    {<<>>,
     << <<Rat(6, 10), {"hello"}>>, <<Rat(4, 10), {"hello", "chinese"}>> >>,
     << <<RatOne, OtherUtt>> >>,
     << <<Rat(6, 10), OtherUtt>>, <<Rat(4, 10), {"hello", "chinese"}>> >>}
DecodeConfnetArgs ==
    [confnet : {{"hello"}, {"hello", "chinese"}}, include_other : BOOLEAN,
     prob_combine_meth : {"max"}]

InitDecode ==
    /\ \E prep \in BOOLEAN :
          __init__(prep, "logistic", {"ngram"}, {"concrete", "abstract"})
    /\ last_op = "__init__"
    /\ raised = "none"
    /\ call_args = <<>>
    /\ file \in {Some(f) : f \in DecodeFiles}
    /\ saver = None
    /\ result = None
    /\ calib_data = <<>>

Parse1Best ==
    /\ HasModel
    /\ \E a \in DecodeParseArgs, order \in DictOrders(trained_classifiers) :
          \E r \in {parse_1_best(Model, a, order)} :
              /\ result' = Some(r.confnet)
              /\ raised' = r.raised
              /\ call_args' = a
    /\ last_op' = "parse_1_best"
    /\ UNCHANGED <<objVars, calib_data, fileVars>>

ParseNBList ==
    /\ HasModel
    /\ \E utterance_list \in DecodeNBLists,
          order \in DictOrders(trained_classifiers) :
          \E r \in {parse_nblist(Model, utterance_list, order)} :
              /\ result' = Some(r.confnet)
              /\ raised' = r.raised
              /\ call_args' = [utterance_list |-> utterance_list]
    /\ last_op' = "parse_nblist"
    /\ UNCHANGED <<objVars, calib_data, fileVars>>

ParseConfnet ==
    /\ HasModel
    /\ \E a \in DecodeConfnetArgs, order \in DictOrders(trained_classifiers) :
          \E r \in {parse_confnet(Model, a, order)} :
              /\ result' = Some(r.confnet)
              /\ raised' = r.raised
              /\ call_args' = a
              \* category_label2value() has changed key objects of the model
              /\ trained_classifiers' = RekeySet(trained_classifiers, r.relabelled)
              /\ intercepts' = Rekey(intercepts, r.relabelled)
              /\ coefs' = Rekey(coefs, r.relabelled)
              /\ cls_thresholds' = Rekey(cls_thresholds, r.relabelled)
    /\ last_op' = "parse_confnet"
    /\ UNCHANGED <<cfgVars, dataVars, registryVars, defaultVars, _dai_counts>>
    /\ UNCHANGED <<calib_data, fileVars>>

NextDecode ==
    \/ DoLoadModel
    \/ Parse1Best
    \/ ParseNBList
    \/ ParseConfnet

SpecDecode == InitDecode /\ [][NextDecode]_vars

\* ---- C8
\* C8: decoding is stateless: parse_1_best, parse_nblist and parse_confnet
\* leave feature_idxs, intercepts, coefs, trained_classifiers (and the DAIs
\* that key it), cls_thresholds and abstractions of the loaded model
\* unchanged.
C8_DecodingIsStateless ==
    [][last_op' \in {"parse_1_best", "parse_nblist", "parse_confnet"} =>
          UNCHANGED <<feature_idxs, intercepts, coefs, trained_classifiers,
                      cls_thresholds, abstractions>>]_vars

\* ---- C9
\* Is the confnet in the order sort() gives it (no item before an item of
\* greater probability)?
IsSorted(cn) == \A i, j \in DOMAIN cn : i < j => ~RatLess(cn[i][1], cn[j][1])

\* C9: the confnet that parse_1_best returns is sorted, for every input,
\* also when a DA n-best list was supplied and its missing DAIs were
\* inserted.
C9_ReturnedConfnetSorted ==
    (last_op = "parse_1_best" /\ raised = "none") => IsSorted(Val(result))

\* ---- C10
\* The set of (probability, DAI) pairs of a confnet, a DAI being its triple.
Pairs(cn) ==
    {<<cn[i][1], <<cn[i][2].dat, cn[i][2].name, cn[i][2].value>>>> :
        i \in DOMAIN cn}

\* C10: for a fixed model and input, and every merge strategy in {new, max,
\* add, arit, harm}, the set of (probability, DAI) pairs that parse_1_best
\* returns does not depend on the order in which the trained classifiers
\* are iterated, also when a generic and a concrete classifier produce the
\* same instantiated DAI: every order gives the pairs the call returned.
C10_AnyStrategyOrderIndependent ==
    (last_op = "parse_1_best" /\ raised = "none") =>
        \A order \in DictOrders(trained_classifiers) :
            Pairs(parse_1_best(Model, call_args, order).confnet)
            = Pairs(Val(result))


\* --------------------------------------------------- loader specification
\* One load_model call on every newly constructed object, for every file.
LoadVersions == {"3.1", "3.2", "DSTC13.9", "4", "5"}
LoadFiles == {DecodeFile(v, c) : v \in LoadVersions, c \in DecodeClassifiers}

InitLoad ==
    /\ \E prep \in BOOLEAN, ctype \in {"logistic", "tree"},
          abstr \in AbstractionSets :
          __init__(prep, ctype, {"ngram"}, abstr)
    /\ last_op = "__init__"
    /\ raised = "none"
    /\ call_args = <<>>
    /\ file \in {Some(f) : f \in LoadFiles}
    /\ saver = None
    /\ result = None
    /\ calib_data = <<>>

NextLoad == DoLoadModel

SpecLoad == InitLoad /\ [][NextLoad]_vars

\* The version tags load_model knows.
KnownVersions == {"0", "1", "2", "3.0", "3.1", "DSTC13", "DSTC13.2", "4"}

\* C11: load_model of a file whose version tag is not one of 0, 1, 2, 3.0,
\* 3.1, DSTC13, DSTC13.2, 4 fails with the model-version error
\* (SLUException); it never returns normally.
C11_UnknownVersionIsFatal ==
    (last_op = "load_model" /\ Val(file).version \notin KnownVersions)
    => raised = "SLUException"


\* ------------------------------------------------ catalogue specification
\* extract_features on a new object, then the dai_counts getter and
\* prune_classifiers in any order.
CatDAs ==
    {{hello}, {inform_chinese}, {inform_food}, {inform_other}, {inform_dontcare},
     {inform_noname_dontcare}, {request_food}, {inform_chinese, null_dai}}
CatExtractArgs ==
    [utterances : {Some(S1_utterances)},
     das : {Some(<<a, b, c>>) : a \in CatDAs, b \in CatDAs, c \in CatDAs},
     prev_das : {None}, utt_nblists : {None}, da_nblists : {None},
     da_nblists_orig : {None}]

InitCatalogue ==
    /\ \E prep \in BOOLEAN, abstr \in AbstractionSets :
          __init__(prep, "logistic", {"ngram"}, abstr)
    /\ last_op = "__init__"
    /\ raised = "none"
    /\ call_args = <<>>
    /\ file = None
    /\ saver = None
    /\ result = None
    /\ calib_data = <<>>

CatExtractFeatures ==
    /\ last_op = "__init__"
    /\ \E a \in CatExtractArgs : extract_features(a)
    /\ UNCHANGED <<cfgVars, registryVars, defaultVars, _dai_counts, modelVars>>
    /\ UNCHANGED <<calib_data, result, fileVars>>

CatDaiCounts ==
    /\ last_op \in {"extract_features", "prune_classifiers"} /\ raised = "none"
    /\ dai_counts
    /\ UNCHANGED <<cfgVars, dataVars, registryVars, defaultVars, modelVars>>
    /\ UNCHANGED <<calib_data, fileVars>>

CatPruneClassifiers ==
    /\ last_op \in {"extract_features", "dai_counts", "prune_classifiers"}
    /\ raised = "none"
    /\ \E m \in {None, Some(1), Some(2)} : prune_classifiers(m, None, None)
    /\ UNCHANGED <<cfgVars, dataVars, registryVars, modelVars>>
    /\ UNCHANGED <<_default_min_feat_count, _default_min_conc_feat_count>>
    /\ result' = None
    /\ UNCHANGED <<calib_data, fileVars>>

NextCatalogue == CatExtractFeatures \/ CatDaiCounts \/ CatPruneClassifiers

SpecCatalogue == InitCatalogue /\ [][NextCatalogue]_vars

\* The occurrences <<utt_id, DAI>> of DAIs in the training DAs.
Occurrences == UNION {{<<u, d>> : d \in Val(das)[u]} : u \in utt_ids}

\* How often the DAI k occurs as the generic form of a DAI of the training
\* DAs and, if 'concrete' is among the abstractions, as a DAI that differs
\* from its generic form.
OccurrenceCount(k) ==
    Cardinality({o \in Occurrences : DAIEq(get_generic(o[2]), k)})
    + (IF "concrete" \in abstractions
       THEN Cardinality({o \in Occurrences :
                            DAIEq(o[2], k) /\ ~DAIEq(o[2], get_generic(o[2]))})
       ELSE 0)

\* The catalogue that prune_classifiers starts from.
PriorCatalogue ==
    IF ~IsNone(_dai_counts) THEN Val(_dai_counts)
    ELSE LET keys == {k \in {get_generic(o[2]) : o \in Occurrences}
                              \cup {o[2] : o \in Occurrences} :
                         OccurrenceCount(k) > 0}
         IN  [k \in keys |-> OccurrenceCount(k)]

\* Does prune_classifiers, as the step just taken, keep exactly the DAIs of
\* the prior catalogue that are generic or pass all four tests, with their
\* counts?  slot_set(d) says when the slot of d counts as set in the test
\* of dontcare.
KeepsExactly(slot_set(_)) ==
    LET prior == PriorCatalogue
        min == call_args'.min_dai_count
        kept == {d \in DOMAIN prior :
                   \/ is_generic(d)
                   \/ /\ ~(d.name # NONE /\ d.value # NONE /\ prior[d] < min)
                      /\ d.value # other_val
                      /\ ~(slot_set(d) /\ d.value = "dontcare")
                      /\ ~is_null(d)}
    IN  /\ DOMAIN Val(_dai_counts') = kept
        /\ \A d \in kept : Val(_dai_counts')[d] = prior[d]

SlotNotNone(d) == d.name # NONE
SlotNonEmpty(d) == d.name \notin {NONE, ""}

\* C12 as stated: after prune_classifiers with the default accept
\* predicate, the catalogue holds exactly those DAIs of the prior catalogue
\* that are generic, or that satisfy all of: not (slot and value both set
\* and count < min_dai_count), value != other_val, not (slot set and
\* value == "dontcare"), not the null DAI; each kept DAI keeps its count.
C12_PrunedCatalogue ==
    [][(last_op' = "prune_classifiers" /\ raised' = "none")
       => KeepsExactly(SlotNotNone)]_vars

\* C12, amended: the same, where in the test of dontcare the slot counts
\* as set only if its name is neither None nor the empty string (in the
\* test of the count a slot named '' does count as set).
C12_PrunedCatalogueNonEmptySlot ==
    [][(last_op' = "prune_classifiers" /\ raised' = "none")
       => KeepsExactly(SlotNonEmpty)]_vars

\* prune_classifiers has removed inform(food="[OTHER]"), which occurred at
\* least min_dai_count times, and has kept a dontcare with the slot name ''
\* and hello().
C12_Witness ==
    /\ last_op = "prune_classifiers" /\ raised = "none"
    /\ Cardinality({o \in Occurrences : DAIEq(o[2], inform_other)})
         >= call_args.min_dai_count
    /\ inform_other \notin DOMAIN Val(_dai_counts)
    /\ {inform_noname_dontcare, hello} \subseteq DOMAIN Val(_dai_counts)

\* C20: the catalogue that the dai_counts getter builds counts, for every
\* occurrence of a DAI in the training DAs, one occurrence in the bucket of
\* its generic form and, when 'concrete' is among the abstractions and the
\* DAI differs from its generic form, one in the DAI's own bucket; there is
\* no other bucket.
C20_CatalogueCounts ==
    [][(last_op' = "dai_counts" /\ raised' = "none" /\ IsNone(_dai_counts))
       => /\ \A k \in DOMAIN Val(_dai_counts') :
                Val(_dai_counts')[k] = OccurrenceCount(k) /\ OccurrenceCount(k) > 0
          /\ \A o \in Occurrences :
                /\ get_generic(o[2]) \in DOMAIN Val(_dai_counts')
                /\ ("concrete" \in abstractions /\ ~DAIEq(o[2], get_generic(o[2])))
                     => o[2] \in DOMAIN Val(_dai_counts')]_vars

\* The getter has counted inform(food=chinese) twice in its own bucket and,
\* with an inform(food=CL_FOOD), three times in the generic bucket.
C20_Witness ==
    /\ last_op = "dai_counts" /\ raised = "none"
    /\ "concrete" \in abstractions
    /\ inform_chinese \in DOMAIN Val(result)
    /\ Val(result)[inform_chinese] = 2
    /\ Val(result)[inform_food] = 3


\* ============================================== train: a fit that raises

\* sorted(self._dai_counts), the DAIs train's loop visits.
TrainTodo == SortDAIs(DOMAIN Val(_dai_counts))

\* The step left the registries as the run `run' of train's loop leaves them.
RunGives(run) ==
    LET stored == {i \in DOMAIN run : run[i].store}
    IN  /\ trained_classifiers' = {TrainTodo[i] : i \in stored}
        /\ \A i \in stored :
              /\ intercepts'[TrainTodo[i]] = run[i].intercept
              /\ coefs'[TrainTodo[i]] = run[i].coefs
              /\ IsNone(run[i].thr) \/ cls_thresholds'[TrainTodo[i]] = Val(run[i].thr)
        /\ raised' = IF run = <<>> THEN "none" ELSE run[Len(run)].raised

\* C13: when fit raises for one DAI during train, this call writes no entry
\* for that DAI in trained_classifiers, intercepts, coefs or cls_thresholds,
\* and the loop goes on over every remaining DAI of the catalogue.
C13_FitFailureSkipsOneDAI ==
    [][(last_op' = "train" /\ raised' = "none") =>
         \A run \in TrainRuns(TrainTodo, call_args') :
            RunGives(run) =>
              /\ Len(run) = Len(TrainTodo)
              /\ \A i \in DOMAIN run :
                    run[i].fit_raised =>
                      /\ TrainTodo[i] \notin trained_classifiers'
                      /\ TrainTodo[i] \notin DOMAIN intercepts'
                            \/ (TrainTodo[i] \in DOMAIN intercepts
                                /\ intercepts'[TrainTodo[i]] = intercepts[TrainTodo[i]])
                      /\ TrainTodo[i] \notin DOMAIN coefs'
                            \/ (TrainTodo[i] \in DOMAIN coefs
                                /\ coefs'[TrainTodo[i]] = coefs[TrainTodo[i]])
                      /\ TrainTodo[i] \notin DOMAIN cls_thresholds'
                            \/ (TrainTodo[i] \in DOMAIN cls_thresholds
                                /\ cls_thresholds'[TrainTodo[i]]
                                      = cls_thresholds[TrainTodo[i]])]_vars

\* train returned after the fit of one DAI raised and a later DAI of the
\* catalogue was trained.
C13_Witness ==
    /\ last_op = "train" /\ raised = "none"
    /\ \E i, j \in DOMAIN TrainTodo :
          /\ i < j
          /\ TrainTodo[i] \notin trained_classifiers
          /\ TrainTodo[j] \in trained_classifiers
          /\ \E o \in TrainOutcomes(TrainTodo[i], call_args) : o.fit_raised
          /\ \A o \in TrainOutcomes(TrainTodo[i], call_args) : o.fit_raised \/ o.store


\* ====================================== decode: a classifier that raises

\* The trained DAIs for which predict_prob raises on the model mdl (no
\* intercept, or coefficients that do not fit the features), whatever the
\* feature vector.
Failing(mdl) ==
    {dai \in mdl.trained_classifiers : IsNone(predict_prob(mdl, dai, {}))}

\* The orders in which the classifiers that do not raise can be iterated.
WorkingOrders(mdl) == DictOrders(mdl.trained_classifiers \ Failing(mdl))

\* C14: when predict_prob raises for a trained DAI during parse_1_best or
\* parse_confnet, the call returns normally, and the confnet it returns is
\* the one that the evaluation of all the other trained DAIs gives: the
\* failing evaluation adds no entry and ends nothing.
C14_PredictFailureSkipsOneDAI ==
    [][(Failing(Model) # {} /\ Model.preprocessing) =>
          /\ last_op' = "parse_1_best" =>
                /\ raised' = "none"
                /\ \E order \in WorkingOrders(Model) :
                      result' = Some(parse_1_best(Model, call_args', order).confnet)
          /\ last_op' = "parse_confnet" =>
                /\ raised' = "none"
                /\ \E order \in WorkingOrders(Model) :
                      result' = Some(parse_confnet(Model, call_args', order).confnet)]_vars

\* parse_1_best returned a confnet with entries of other classifiers after
\* predict_prob raised for the concrete classifier of inform(food=indian).
C14_Witness ==
    /\ last_op = "parse_1_best" /\ raised = "none"
    /\ inform_indian \in Failing(Model)
    /\ is_generic(inform_food) /\ inform_food \notin Failing(Model)
    /\ Val(result) # <<>>
    /\ ~InConfnet(inform_indian, Val(result))


\* ============================================================ balance_data
MaxRows == 5
\* The rows of `inputs' are told apart by one value.
RowVals == {0, 1}

\* The number of entries of the label list `outs' that equal `label'.
CountLabel(outs, label) == Cardinality({i \in DOMAIN outs : outs[i] = label})

\* balance_data that never copies a row.
balance_data_no_copies(inputs, outputs) ==
    IF outputs = <<>>
    THEN {[raised |-> "ValueError", inputs |-> <<>>, outputs |-> <<>>]}
    ELSE {[raised |-> "none", inputs |-> inputs, outputs |-> outputs]}

\* DAILogRegClassifier.balance_data(inputs, outputs): the results it can
\* return; the rows it adds for a label are copies of rows of that label
\* drawn by random.choice.
balance_data(inputs, outputs) ==
    LET outputs_idxs(o) == {i \in DOMAIN outputs : outputs[i] = o}
        labels == {outputs[i] : i \in DOMAIN outputs}
        count(o) == Cardinality(outputs_idxs(o))
        max_count == CHOOSE c \in {count(o) : o \in labels} :
                        \A o \in labels : count(o) <= c
        n_remains(o) == max_count - count(o)
        \* the labels that get rows, in the order of the dict's iteration
        short == SelectSeq(<<0, 1>>, LAMBDA o : o \in labels /\ n_remains(o) > 0)
        draws(o) == [1..n_remains(o) -> outputs_idxs(o)]
    IN  IF outputs = <<>>
        THEN \* max() of an empty list
             {[raised |-> "ValueError", inputs |-> <<>>, outputs |-> <<>>]}
        ELSE IF short = <<>>
        THEN {[raised |-> "none", inputs |-> inputs, outputs |-> outputs]}
        ELSE \* with two labels only one of them is short of rows
             {[raised |-> "none",
               inputs |-> inputs \o [j \in DOMAIN d |-> inputs[d[j]]],
               outputs |-> outputs \o [j \in DOMAIN d |-> short[1]]] :
              d \in draws(short[1])}

InitBalance ==
    /\ __init__(TRUE, "logistic", {"ngram"}, {"concrete", "abstract"})
    /\ last_op = "__init__"
    /\ raised = "none"
    /\ call_args = <<>>
    /\ file = None
    /\ saver = None
    /\ result = None
    /\ calib_data = <<>>

\* One call of the class method on the new object.
BalanceData ==
    /\ last_op = "__init__"
    /\ \E n \in 0..MaxRows :
         \E inputs \in [1..n -> RowVals], outputs \in [1..n -> {0, 1}] :
            \E r \in balance_data(inputs, outputs) :
               /\ call_args' = [inputs |-> inputs, outputs |-> outputs]
               /\ raised' = r.raised
               /\ result' = IF r.raised = "none"
                            THEN Some([inputs |-> r.inputs, outputs |-> r.outputs])
                            ELSE None
    /\ last_op' = "balance_data"
    /\ UNCHANGED <<objVars, calib_data, fileVars>>

NextBalance == BalanceData

SpecBalance == InitBalance /\ [][NextBalance]_vars

\* max(|rows_0|, |rows_1|) of the input of the last call.
MaxClass ==
    IF CountLabel(call_args.outputs, 0) < CountLabel(call_args.outputs, 1)
    THEN CountLabel(call_args.outputs, 1) ELSE CountLabel(call_args.outputs, 0)

\* The returned data hold as many rows labelled 0 as rows labelled 1, and
\* as many as the larger class of the input.
Balanced ==
    /\ CountLabel(Val(result).outputs, 0) = MaxClass
    /\ CountLabel(Val(result).outputs, 1) = MaxClass
    /\ Len(Val(result).inputs) = Len(Val(result).outputs)

\* C15: for every (inputs, outputs) with at least one row, balance_data
\* returns data in which the rows labelled 0 and the rows labelled 1 are
\* equally many, namely max(|rows_0|, |rows_1|) of the input.
C15_BalancedClasses ==
    (last_op = "balance_data" /\ Len(call_args.outputs) >= 1) =>
        raised = "none" /\ Balanced

\* C15, for the inputs that hold both labels: the classes come out equally
\* large as above, the rows of the input are kept, and every added row is
\* a copy of an input row of the label it is given.  Data of a single
\* label are returned as they are.
C15_BalancedWhenBothLabels ==
    (last_op = "balance_data" /\ Len(call_args.outputs) >= 1) =>
        /\ raised = "none"
        /\ IF CountLabel(call_args.outputs, 0) > 0 /\ CountLabel(call_args.outputs, 1) > 0
           THEN /\ Balanced
                /\ SubSeq(Val(result).inputs, 1, Len(call_args.inputs)) = call_args.inputs
                /\ SubSeq(Val(result).outputs, 1, Len(call_args.outputs)) = call_args.outputs
                /\ \A j \in DOMAIN Val(result).outputs :
                      \E i \in DOMAIN call_args.outputs :
                         /\ call_args.outputs[i] = Val(result).outputs[j]
                         /\ call_args.inputs[i] = Val(result).inputs[j]
           ELSE Val(result) = call_args

\* y = [0, 0, 0, 1] came back as three 0s and three 1s, 6 rows.
C15_Witness ==
    /\ last_op = "balance_data" /\ raised = "none"
    /\ call_args.outputs = <<0, 0, 0, 1>>
    /\ Len(Val(result).outputs) = 6
    /\ CountLabel(Val(result).outputs, 0) = 3
    /\ CountLabel(Val(result).outputs, 1) = 3


\* ================================================== n_feat_sets (registry)
\* The number of feature-sets the assembler joined for the training
\* example utt_id in the extract_features call that has just returned.
JoinedSets(utt_id) ==
    _extract_feats_from_one(features_type, abstractions, _do_abstract_values,
        At(utterances, utt_id), At(abutterances, utt_id),
        At(call_args.prev_das, utt_id), At(call_args.utt_nblists, utt_id),
        At(call_args.da_nblists, utt_id), At(call_args.da_nblists_orig, utt_id),
        <<"all">>).n_sets

\* C16: after extract_features, n_feat_sets is the number of feature-sets
\* joined for each example, every joined feature's set index lies in
\* [0, n_feat_sets), and the features are (set_index, payload) pairs
\* exactly when n_feat_sets says that more than one set was joined.
C16_FeatSetCount ==
    (last_op = "extract_features" /\ raised = "none") =>
        \A u \in utt_ids :
            /\ n_feat_sets = JoinedSets(u)
            /\ \A f \in Val(utterance_features)[u] :
                  IF n_feat_sets > 1 THEN f.set \in 0..(n_feat_sets - 1)
                  ELSE f.set = -1


\* ============================================ extract_features: arguments
\* extract_features with every combination of given and missing arguments.
AnyExtractArgs ==
    [utterances : {None, Some(S1_utterances)},
     das : {None, Some(S1_das)},
     prev_das : {None, Some(S1_prev_das)},
     utt_nblists : {None, Some(S1_utt_nblists)},
     da_nblists : {None, Some(S1_da_nblists)},
     da_nblists_orig : {None, Some(S1_da_nblists)}]

ExtractAny ==
    /\ last_op = "__init__"
    /\ \E a \in AnyExtractArgs : extract_features(a)
    /\ UNCHANGED <<cfgVars, registryVars, defaultVars, _dai_counts, modelVars>>
    /\ UNCHANGED <<calib_data, result, fileVars>>

NextExtract == ExtractAny

SpecExtract == InitPrune /\ [][NextExtract]_vars

\* The cases in which extract_features is to refuse its arguments.
BadExtractArgs(a) ==
    \/ /\ IsNone(a.utterances) /\ IsNone(a.utt_nblists)
       /\ IsNone(a.da_nblists) /\ IsNone(a.da_nblists_orig)
    \/ IsNone(a.das)
    \/ preprocessing /\ IsNone(a.utterances) /\ IsNone(a.utt_nblists)

\* C17: extract_features fails with a configuration error, before any
\* feature is extracted, when no input is given, when das is not given, or
\* when a preprocessor is set and neither utterances nor utt_nblists is
\* given.
C17_BadArgumentsRefused ==
    (last_op = "extract_features" /\ BadExtractArgs(call_args)) =>
        raised = "DAILRException" /\ IsNone(utterance_features)


\* ================================== parse_1_best: DAIs of the DA n-best list
\* The DA n-best list the last parse_1_best call took the missing DAIs
\* from: da_nblist, or da_nblist_orig when da_nblist is not given.
TheNBList ==
    IF Truthy(call_args.da_nblist) THEN Val(call_args.da_nblist)
    ELSE Val(call_args.da_nblist_orig)

\* The probability the confnet cn holds for dai.
ProbOf(cn, dai) ==
    cn[CHOOSE i \in CnIndex(cn, dai) : \A j \in CnIndex(cn, dai) : i <= j][1]

\* The probability of the first hypothesis of nblist that holds dai.
FirstHypProb(nblist, dai) ==
    nblist[CHOOSE i \in DOMAIN nblist :
              /\ InDA(dai, nblist[i][2])
              /\ \A j \in DOMAIN nblist : InDA(dai, nblist[j][2]) => i <= j][1]

\* What the classifiers alone return for the arguments of the last call,
\* iterated in `order'.
ClassifiersOnly(order) ==
    parse_1_best(Model, [call_args EXCEPT !.da_nblist = None,
                                          !.da_nblist_orig = None], order).confnet

RealHyps(ul) == SelectSeq(ul, LAMBDA h : h[2] # OtherUtt)

\* The (probability, DAI) pairs of the confnet cn for DAIs other than
\* other().
NonOther(cn) == {e \in Pairs(cn) : e[2][1] # "other"}

\* C19: parse_nblist does not pass an "__other__" hypothesis to
\* parse_1_best: a list of such hypotheses only is answered without any
\* classifier being evaluated (also by an object whose parse_1_best
\* fails) by a confnet of other() alone, with the hypothesis' probability
\* times 1.0 when there is one hypothesis; in a mixed list the hypothesis
\* contributes other() with that probability and nothing else, the other
\* entries being those of the remaining hypotheses.  An empty list is
\* answered by an empty confnet.
C19_OtherAndEmptyLists ==
    last_op = "parse_nblist" =>
      LET ul == call_args.utterance_list
          others == {i \in DOMAIN ul : ul[i][2] = OtherUtt}
      IN  /\ ul = <<>> => raised = "none" /\ result = Some(<<>>)
          /\ (ul # <<>> /\ RealHyps(ul) = <<>>) =>
                /\ raised = "none"
                /\ NonOther(Val(result)) = {}
                /\ Len(ul) = 1 =>
                     Val(result) = << <<Norm(RatMul(ul[1][1], RatOne)), other>> >>
          /\ (raised = "none" /\ others # {} /\ RealHyps(ul) # <<>>) =>
                /\ \E order \in DictOrders(trained_classifiers) :
                      NonOther(Val(result))
                        = NonOther(parse_nblist(Model, RealHyps(ul), order).confnet)
                /\ \A i \in others :
                      others = {i} =>
                        /\ Cardinality(CnIndex(Val(result), other)) = 1
                        /\ ProbOf(Val(result), other) = Norm(RatMul(ul[i][1], RatOne))

\* parse_nblist returned other() at 0.6 and entries of the classifiers for
\* the list [(0.6, "__other__"), (0.4, "hello chinese")].
C19_Witness ==
    /\ last_op = "parse_nblist" /\ raised = "none"
    /\ Len(call_args.utterance_list) = 2
    /\ call_args.utterance_list[1][2] = OtherUtt
    /\ InConfnet(other, Val(result))
    /\ ProbOf(Val(result), other) = Norm(Rat(6, 10))
    /\ NonOther(Val(result)) # {}


\* ================================================================ get_size
\* DAILogRegClassifier.get_size(): `return len(self.features_idxs)'.  No
\* method of the class assigns a field of that name (the registry is
\* feature_idxs), so the attribute lookup raises.
get_size ==
    /\ raised' = "AttributeError"
    /\ result' = None
    /\ last_op' = "get_size"
    /\ call_args' = <<>>

GetSize ==
    /\ last_op = "prune_features" /\ raised = "none"
    /\ get_size
    /\ UNCHANGED <<objVars, calib_data, fileVars>>

NextSize == ExtractFeatures \/ PruneFeatures \/ GetSize

SpecSize == InitPrune /\ [][NextSize]_vars

\* C21: get_size returns the number of features in use, |feature_idxs|,
\* wherever feature_idxs is defined (here after prune_features).
C21_GetSizeCountsFeatures ==
    last_op = "get_size" =>
        raised = "none" /\ result = Some(Cardinality(DOMAIN feature_idxs))


\* ========================================= calibrator: the stored midpoint
\* The boundaries of the sorted data: the index of the last datum of every
\* group of equal probability.
GroupEnds(data) ==
    {i \in DOMAIN data : i = Len(data) \/ data[i + 1][1] # data[i][1]}

\* The F-score when the data up to the boundary b are classified negative
\* and the rest positive.
FScoreSplit(data, b) ==
    LET tp == SumLabels(data, b + 1, Len(data))
    IN  fscore(tp, (Len(data) - b) - tp, SumLabels(data, 1, b))

\* The earliest boundary that attains the best F-score of all boundaries.
BestBoundary(data) ==
    CHOOSE b \in GroupEnds(data) :
        /\ \A c \in GroupEnds(data) :
              ~RatLess(FScoreSplit(data, b), FScoreSplit(data, c))
        /\ \A c \in GroupEnds(data) :
              c < b => RatLess(FScoreSplit(data, c), FScoreSplit(data, b))

\* The sum (twice the midpoint) of the probability of the group that ends
\* at b and the next higher probability, or the group's own twice at the
\* end of the data.
MidAfter(data, b) ==
    IF b < Len(data) THEN data[b][1] + data[b + 1][1] ELSE 2 * data[b][1]

\* C22: the threshold _calibrate_prior stores is the midpoint between the
\* probability of the chosen boundary group and the next higher distinct
\* probability (the group's own at the end), the chosen boundary being the
\* earliest that attains the best F-score, or, when no split improves on
\* classifying everything positive, that one or the first group; also for
\* data with repeated probabilities.
C22_ThresholdIsGroupMidpoint ==
    last_op = "_calibrate_prior" =>
      LET data == SortedByProb(calib_data)
          first == CHOOSE b \in GroupEnds(data) : \A c \in GroupEnds(data) : b <= c
          improves == RatLess(FScoreSplit(data, 0),
                              FScoreSplit(data, BestBoundary(data)))
      IN  \/ cls_thresholds[CalibDAI] = MidAfter(data, BestBoundary(data))
          \/ ~improves /\ cls_thresholds[CalibDAI] = MidAfter(data, first)


\* ================================================== train: the rows built
\* Training data with category labels: the third utterance has two
\* instantiations of CL_FOOD.
S2_utterances == <<{"hello"}, {"hello", "chinese"}, {"indian", "chinese"}>>
S2_das ==
    {<<{hello}, {hello, inform_chinese}, {inform_indian}>>,
     <<{hello}, {inform_chinese}, {inform_chinese, inform_indian}>>,
     <<{bye}, {hello}, {inform_indian}>>,
     <<{hello}, {bye, inform_chinese}, {inform_chinese}>>,
     <<{hello, bye}, {inform_chinese}, {bye, inform_indian}>>}

InitRows ==
    /\ __init__(TRUE, "logistic", {"ngram"}, {"abstract"})
    /\ last_op = "__init__"
    /\ raised = "none"
    /\ call_args = <<>>
    /\ file = None
    /\ saver = None
    /\ result = None
    /\ calib_data = <<>>

RowsExtractFeatures ==
    /\ last_op = "__init__"
    /\ \E d \in S2_das :
          extract_features([utterances |-> Some(S2_utterances), das |-> Some(d),
                            prev_das |-> None, utt_nblists |-> None,
                            da_nblists |-> None, da_nblists_orig |-> None])
    /\ UNCHANGED <<cfgVars, registryVars, defaultVars, _dai_counts, modelVars>>
    /\ UNCHANGED <<calib_data, result, fileVars>>

RowsTrain ==
    /\ last_op = "prune_classifiers" /\ raised = "none"
    /\ \E mfc \in {Some(1), Some(2)} :
          train([min_feature_count |-> mfc, min_correct_dai_count |-> None,
                 min_incorrect_dai_count |-> None, calibrate |-> FALSE,
                 verbose |-> FALSE])
    /\ UNCHANGED <<cfgVars, dataVars, registryVars, defaultVars, _dai_counts>>
    /\ UNCHANGED <<calib_data, result, fileVars>>

NextRows ==
    \/ RowsExtractFeatures
    \/ DoPruneFeatures
    \/ DoPruneClassifiers
    \/ RowsTrain

SpecRows == InitRows /\ [][NextRows]_vars

\* The compatible instantiations train finds for dai in the utterance u.
InstsIn(dai, u) == compatible_insts(dai, Val(abutterances)[u])

RECURSIVE SumRows(_, _)
\* The sum over the utterances U of max(1, number of instantiations).
SumRows(dai, U) ==
    IF U = {} THEN 0
    ELSE LET u == CHOOSE x \in U : TRUE
         IN  (IF InstsIn(dai, u) = {} THEN 1 ELSE Cardinality(InstsIn(dai, u)))
             + SumRows(dai, U \ {u})

\* C23: for each DAI d of the catalogue, train builds one row for every
\* utterance without a compatible instantiation, labelled 1 iff d is in
\* the utterance's DA, and one row per instantiation otherwise, labelled 1
\* iff d instantiated with that value is in the DA; the rows number the
\* sum over the utterances of max(1, number of instantiations).
C23_RowsPerInstantiation ==
    (last_op = "train" /\ raised = "none") =>
      \A dai \in DOMAIN Val(_dai_counts) :
        LET rows == TrainRows(dai).rows
            rowsOf(u) == {k \in DOMAIN rows : k[1] = u}
            is(b) == IF b THEN 1 ELSE 0
        IN  /\ TrainRows(dai).raised = "none"
            /\ Cardinality(DOMAIN rows) = SumRows(dai, DOMAIN Val(abutterances))
            /\ \A u \in DOMAIN Val(abutterances) :
                  IF InstsIn(dai, u) = {}
                  THEN /\ rowsOf(u) = {<<u, None>>}
                       /\ rows[<<u, None>>].label = is(InDA(dai, Val(das)[u]))
                  ELSE /\ rowsOf(u) = {<<u, i>> : i \in InstsIn(dai, u)}
                       /\ \A i \in InstsIn(dai, u) :
                             rows[<<u, i>>].label =
                               is(InDA(DialogueActItem(dai.dat, dai.name, i[2], {}),
                                       Val(das)[u]))

\* train ran over a catalogue with the generic inform(food=CL_FOOD), whose
\* rows are one for the first utterance, one for the second and two for
\* the third, and a classifier was fitted on them.
C23_Witness ==
    /\ last_op = "train" /\ raised = "none"
    /\ inform_food \in DOMAIN Val(_dai_counts)
    /\ Cardinality(DOMAIN TrainRows(inform_food).rows) = 4
    /\ Cardinality(InstsIn(inform_food, 3)) = 2
    /\ InstsIn(inform_food, 1) = {}
    /\ inform_food \in trained_classifiers


\* ===================================== parse_1_best: what a classifier adds
\* The type, slot and value of a DAI.
Triple(dai) == <<dai.dat, dai.name, dai.value>>

\* The instantiations parse_1_best finds for the trained DAI d in the
\* utterance of the last call.
DecodeInsts(d) ==
    IF Abstract(call_args.utterance).words # {}
    THEN decode_compatible_insts(d, Abstract(call_args.utterance)) ELSE {}

\* The feature vector of the utterance of the last call, instantiated with
\* inst (None: the concrete vector).
LastFeatVec(inst) ==
    get_feature_vector(
        DecodeFeatVec(Model, call_args.utterance, Abstract(call_args.utterance),
                      call_args, inst).feats,
        feature_idxs)

\* What the trained DAIs are to contribute to the confnet of the last
\* parse_1_best call: <<DAI, probability, classifier>>, the probability
\* None when predict_prob raises.
Contributions ==
    UNION {
      IF DecodeInsts(d) # {}
      THEN {<<Triple(DialogueActItem(d.dat, d.name, i[2], {})),
              predict_prob(Model, d, LastFeatVec(i)), d>> : i \in DecodeInsts(d)}
      ELSE IF is_generic(d) THEN {}
      ELSE {<<Triple(d), predict_prob(Model, d, LastFeatVec(None)), d>>} :
      d \in trained_classifiers}

\* C24: in parse_1_best a trained generic DAI without instantiation adds
\* nothing, a trained non-generic DAI without instantiation adds its own
\* DAI with the probability of the concrete feature vector, and a DAI with
\* instantiations adds the instantiated DAI of every instantiation with the
\* probability of the instantiated vector and is not evaluated on the
\* concrete one: the confnet holds exactly these DAIs, each once, and a DAI
\* with one contribution has that probability.
C24_ContributionsPerClassifier ==
    (/\ last_op = "parse_1_best" /\ raised = "none"
     /\ ~Truthy(call_args.da_nblist) /\ ~Truthy(call_args.da_nblist_orig)) =>
       LET made == {c \in Contributions : ~IsNone(c[2])}
       IN  /\ {Triple(Val(result)[i][2]) : i \in DOMAIN Val(result)}
                = {c[1] : c \in made}
           /\ \A i, j \in DOMAIN Val(result) :
                 Triple(Val(result)[i][2]) = Triple(Val(result)[j][2]) => i = j
           /\ \A c \in made :
                 (\A e \in made : e[1] = c[1] => e = c) =>
                    \E i \in DOMAIN Val(result) :
                       /\ Triple(Val(result)[i][2]) = c[1]
                       /\ Val(result)[i][1] = Val(c[2])

\* parse_1_best of "hello chinese": the generic inform(food=CL_FOOD) added
\* inform(food=chinese), the concrete inform(food=indian), for which the
\* utterance has no instantiation, was added under its own DAI.
C24_Witness ==
    /\ last_op = "parse_1_best" /\ raised = "none"
    /\ call_args.utterance = {"hello", "chinese"}
    /\ ~Truthy(call_args.da_nblist) /\ ~Truthy(call_args.da_nblist_orig)
    /\ inform_food \in trained_classifiers /\ DecodeInsts(inform_food) # {}
    /\ inform_indian \in trained_classifiers /\ DecodeInsts(inform_indian) = {}
    /\ InConfnet(inform_chinese, Val(result))
    /\ InConfnet(inform_indian, Val(result))
    /\ ~InConfnet(inform_food, Val(result))


\* ============================== defaults remembered from prune_features
\* prune_classifiers right after extract_features.
DefaultsPruneClassifiers ==
    /\ last_op = "extract_features" /\ raised = "none"
    /\ prune_classifiers(Some(1), None, None)
    /\ UNCHANGED <<cfgVars, dataVars, registryVars, modelVars>>
    /\ UNCHANGED <<_default_min_feat_count, _default_min_conc_feat_count>>
    /\ UNCHANGED <<calib_data, result, fileVars>>

\* prune_features with or without its min_feature_count.
DefaultsPruneFeatures ==
    /\ last_op = "prune_classifiers" /\ raised = "none"
    /\ \E mfc \in MinCountArgs : prune_features(mfc, None)
    /\ UNCHANGED <<cfgVars, _dai_counts, modelVars, calib_data, result, fileVars>>
    /\ UNCHANGED <<n_feat_sets, utterances, abutterances, das, utt_ids>>
    /\ UNCHANGED <<_default_min_correct_dai_count, _default_min_incorrect_dai_count>>

\* train called without min_feature_count, right after prune_features.
DefaultsTrain ==
    /\ last_op = "prune_features" /\ raised = "none"
    /\ train([min_feature_count |-> None, min_correct_dai_count |-> None,
              min_incorrect_dai_count |-> None, calibrate |-> FALSE,
              verbose |-> FALSE])
    /\ UNCHANGED <<cfgVars, dataVars, registryVars, defaultVars, _dai_counts>>
    /\ UNCHANGED <<calib_data, result, fileVars>>

NextDefaults ==
    \/ RowsExtractFeatures
    \/ DefaultsPruneClassifiers
    \/ DefaultsPruneFeatures
    \/ DefaultsTrain

SpecDefaults == InitRows /\ [][NextDefaults]_vars

\* C25: when train is called without min_feature_count, its per-DAI pruning
\* uses the min_feature_count that the preceding prune_features call used,
\* also when prune_features was called without the argument and used 5.
C25_TrainUsesPruneThreshold ==
    [][(last_op = "prune_features" /\ raised = "none" /\ last_op' = "train")
          => call_args'.min_feature_count = call_args.min_feature_count]_vars


\* ================================== feature-set layout per instantiation
\* _extract_feats_from_one on the utterance utt_id of the last
\* extract_features call, for the instantiation inst.
AssembledFor(utt_id, inst) ==
    _extract_feats_from_one(features_type, abstractions, _do_abstract_values,
        At(utterances, utt_id), At(abutterances, utt_id),
        At(call_args.prev_das, utt_id), At(call_args.utt_nblists, utt_id),
        At(call_args.da_nblists, utt_id), At(call_args.da_nblists_orig, utt_id),
        inst)

\* C26: for fixed features_type and abstractions _extract_feats_from_one
\* joins the same number of feature-sets for inst='all', inst=None and
\* inst=(type, value), each source at the same set index (so the concrete
\* features of inst=None are features of inst='all' as well), also when
\* 'concrete' is not in abstractions.
C26_SameLayoutForEveryInst ==
    (/\ last_op = "extract_features" /\ raised = "none"
     /\ ~IsNone(utterances) /\ ~IsNone(abutterances)) =>
        \A u \in utt_ids :
           \E all \in {AssembledFor(u, <<"all">>)},
              none \in {AssembledFor(u, None)} :
              /\ all.raised = "none" /\ none.raised = "none"
              /\ none.n_sets = all.n_sets
              /\ none.feats \subseteq all.feats
              /\ \A inst \in Val(abutterances)[u].insts :
                    AssembledFor(u, inst).n_sets = all.n_sets


\* ================================ _do_abstract_values and abstractions
\* C27: after the constructor and after load_model of any supported
\* version into any object, _do_abstract_values agrees with abstractions:
\* it holds False iff 'partial' is in abstractions and True iff 'abstract'
\* is in abstractions.
C27_DoAbstractMatchesAbstractions ==
    (last_op \in {"__init__", "load_model"} /\ raised = "none") =>
        /\ FALSE \in _do_abstract_values <=> "partial" \in abstractions
        /\ TRUE \in _do_abstract_values <=> "abstract" \in abstractions


\* ===================================== training again, saving and loading
\* The abstractions of the objects: concrete DAIs are in the catalogue too.
RetrainAbstractions == {"concrete", "abstract"}

InitRetrain ==
    /\ __init__(TRUE, "logistic", {"ngram"}, RetrainAbstractions)
    /\ last_op = "__init__"
    /\ raised = "none"
    /\ call_args = <<>>
    /\ file = None
    /\ saver = None
    /\ result = None
    /\ calib_data = <<>>

\* extract_features on the object that is to be trained.
RetrainExtractFeatures ==
    /\ last_op = "__init__" /\ IsNone(file)
    /\ \E d \in {<<{hello}, {inform_chinese}, {inform_indian}>>} :
          extract_features([utterances |-> Some(S2_utterances), das |-> Some(d),
                            prev_das |-> None, utt_nblists |-> None,
                            da_nblists |-> None, da_nblists_orig |-> None])
    /\ UNCHANGED <<cfgVars, registryVars, defaultVars, _dai_counts, modelVars>>
    /\ UNCHANGED <<calib_data, result, fileVars>>

\* prune_features with the default threshold for concrete features, which
\* none of them reaches.
RetrainPruneFeatures ==
    /\ last_op = "extract_features" /\ raised = "none"
    /\ prune_features(Some(2), None)
    /\ UNCHANGED <<cfgVars, _dai_counts, modelVars, calib_data, result, fileVars>>
    /\ UNCHANGED <<n_feat_sets, utterances, abutterances, das, utt_ids>>
    /\ UNCHANGED <<_default_min_correct_dai_count, _default_min_incorrect_dai_count>>

\* prune_classifiers after prune_features, and again with a higher
\* min_dai_count after a train.
RetrainPruneClassifiers ==
    /\ last_op \in {"prune_features", "train"} /\ raised = "none"
    /\ \E mdc \in {Some(1), Some(2)} :
          /\ last_op = "train" => mdc = Some(2)
          /\ prune_classifiers(mdc, None, None)
    /\ UNCHANGED <<cfgVars, dataVars, registryVars, modelVars>>
    /\ UNCHANGED <<_default_min_feat_count, _default_min_conc_feat_count>>
    /\ UNCHANGED <<calib_data, result, fileVars>>

\* train, with or without calibration.
RetrainTrain ==
    /\ last_op = "prune_classifiers" /\ raised = "none"
    /\ \E cal \in BOOLEAN :
          train([min_feature_count |-> None, min_correct_dai_count |-> None,
                 min_incorrect_dai_count |-> None, calibrate |-> cal,
                 verbose |-> FALSE])
    /\ UNCHANGED <<cfgVars, dataVars, registryVars, defaultVars, _dai_counts>>
    /\ UNCHANGED <<calib_data, result, fileVars>>

\* save_model of the trained object without reduction.
RetrainSaveModel ==
    /\ last_op = "train" /\ raised = "none"
    /\ save_model(FALSE)
    /\ UNCHANGED <<cfgVars, dataVars, feat_counts, idx2feature, defaultVars>>
    /\ UNCHANGED <<_dai_counts, trained_classifiers, intercepts, cls_thresholds>>
    /\ UNCHANGED <<calib_data, result>>

\* A new object of the same configuration takes the place of the saver.
RetrainConstruct ==
    /\ last_op = "save_model" /\ raised = "none"
    /\ construct(TRUE, "logistic", {"ngram"}, RetrainAbstractions)
    /\ last_op' = "__init__"
    /\ raised' = "none"
    /\ call_args' = <<>>
    /\ UNCHANGED <<calib_data, result, fileVars>>

NextRetrain ==
    \/ RetrainExtractFeatures
    \/ RetrainPruneFeatures
    \/ RetrainPruneClassifiers
    \/ RetrainTrain
    \/ RetrainSaveModel
    \/ RetrainConstruct
    \/ DoLoadModel

SpecRetrain == InitRetrain /\ [][NextRetrain]_vars

\* C28: for a logistic model, after any sequence of prune_classifiers,
\* train, save_model and load_model calls the key sets of intercepts, coefs
\* and trained_classifiers are equal and every key of cls_thresholds is
\* one of them.
C28_ModelKeysAgree ==
    (/\ clser_type = "logistic" /\ raised = "none"
     /\ last_op \in {"prune_classifiers", "train", "save_model", "load_model"}) =>
        /\ DOMAIN intercepts = trained_classifiers
        /\ DOMAIN coefs = trained_classifiers
        /\ DOMAIN cls_thresholds \subseteq trained_classifiers


\* ===================================== extract_features called once more
\* extract_features on a new object, and again after the catalogue has been
\* read or pruned.
RecountExtractFeatures ==
    /\ last_op \in {"__init__", "dai_counts", "prune_classifiers"}
    /\ raised = "none"
    /\ \E d \in S2_das :
          extract_features([utterances |-> Some(S2_utterances), das |-> Some(d),
                            prev_das |-> None, utt_nblists |-> None,
                            da_nblists |-> None, da_nblists_orig |-> None])
    /\ UNCHANGED <<cfgVars, registryVars, defaultVars, _dai_counts, modelVars>>
    /\ UNCHANGED <<calib_data, result, fileVars>>

NextRecount == RecountExtractFeatures \/ CatDaiCounts \/ CatPruneClassifiers

SpecRecount == InitRows /\ [][NextRecount]_vars

\* C29: after every call of extract_features, dai_counts and the catalogue
\* of prune_classifiers are computed from the DAs of that latest call:
\* every DAI they hold occurs in these DAs, with the count it has there.
C29_CountsOfLatestDAs ==
    [](/\ last_op \in {"dai_counts", "prune_classifiers"} /\ raised = "none"
       => \A k \in DOMAIN Val(_dai_counts) :
             /\ k \in DOMAIN CountDAIs
             /\ Val(_dai_counts)[k] = CountDAIs[k])


\* ============================ instantiations in training and in decoding
\* inform(food=chinese) of a DA that remembers no original value.
inform_chinese_plain == DialogueActItem("inform", "food", "chinese", {})

\* Model files with the generic classifier inform(food=CL_FOOD) and the
\* classifier of inform(food=chinese) without original values.
InstsFiles ==
    {[version |-> "4",
      feature_idxs |-> DecodeFeatureIdxs,
      clser_type |-> "logistic",
      clser_data |-> << (inform_food :> b1) @@ (inform_chinese_plain :> b2),
                        (inform_food :> w1) @@ (inform_chinese_plain :> w2) >>,
      features_type |-> {"ngram"},
      cls_thresholds |-> <<>>,
      abstractions |-> {"concrete", "abstract"}] :
        b1 \in InterceptVals, b2 \in InterceptVals,
        w1 \in {<<1, 0, 0>>, <<0, 0, 0>>}, w2 \in {<<0, 0, 1>>, <<0, 1, 0>>}}

InitInsts ==
    /\ __init__(TRUE, "logistic", {"ngram"}, {"concrete", "abstract"})
    /\ last_op = "__init__"
    /\ raised = "none"
    /\ call_args = <<>>
    /\ file \in {Some(f) : f \in InstsFiles}
    /\ saver = None
    /\ result = None
    /\ calib_data = <<>>

NextInsts == DoLoadModel \/ Parse1Best \/ ParseConfnet

SpecInsts == InitInsts /\ [][NextInsts]_vars

\* The utterance of the last parse_1_best or parse_confnet call.
LastDecoded ==
    IF last_op = "parse_1_best" THEN call_args.utterance ELSE call_args.confnet

\* C30: for every trained DAI and every abstracted utterance, parse_1_best
\* and parse_confnet compute the compatible instantiations with the type
\* words and value words that train uses for the DAI, also for a
\* non-generic DAI with empty orig_values (the words of dai.value).
C30_DecodeInstsAsInTrain ==
    (last_op \in {"parse_1_best", "parse_confnet"} /\ raised = "none") =>
        \A d \in trained_classifiers :
           decode_compatible_insts(d, Abstract(LastDecoded))
              = compatible_insts(d, Abstract(LastDecoded))

====
